---- MODULE Spec2Model ----
(***************************************************************************)
(* Server Garden: the genetic algorithm of ga.js (GeneticAlgorithm) and    *)
(* the agent lifecycle of boids.js, as state machines.                     *)
(*                                                                         *)
(* Numbers are fixed point.  Genome traits live on the grid whose step is  *)
(* the amplitude of the crossover noise of that trait:                     *)
(*   hue        unit 10 degrees   (0..36   is [0,360])                     *)
(*   value      unit 0.05         (0..20   is [0,1])                       *)
(*   bodyScale  unit 0.1          (5..20   is [0.5,2.0])                   *)
(*   baseSpeed  unit 0.05         (10..36  is [0.5,1.8])                   *)
(*   showOff    unit 0.05         (0..24   is [0,1.2])                     *)
(* Sub-scores are in halves (0,1,2 is 0,0.5,1), weights in hundredths and  *)
(* fitness in units of 1/200.  Rates are percentages.  A draw of           *)
(* Math.random() is a nondeterministic choice among the outcomes that land *)
(* on the grid.                                                            *)
(*                                                                         *)
(* The agents of boids.js move in the vertical plane z = 0 over a flat     *)
(* terrain: a position or velocity is its x component, in units of 0.01.   *)
(* Time is in seconds.  A nutrient strength is in units of 1e-6, a         *)
(* nutrient weight in units of 1e-7.  A trail cell holding n / 100^e is    *)
(* the record [n |-> n, e |-> e]; a cell never written holds 0 and is      *)
(* absent from trailGrid.                                                  *)
(***************************************************************************)
EXTENDS Integers, Sequences, FiniteSets, TLC

VARIABLES
    opts,               \* constructor options: populationSize, survivalRate, mutationRate, crossoverRate
    population,         \* this.population: slot index -> genome (<<>> before initPopulation)
    fitness,            \* this.fitness
    generation,         \* this.generation
    lastSortedIndices,  \* this.lastSortedIndices
    lastSurvivors,      \* this.lastSurvivors
    lastDoomed,         \* this.lastDoomed
    call,               \* the last operation invoked: its name, whether it threw, what it used and returned
    budget,             \* how many more draws of Math.random() may leave their neutral outcome
    _states,            \* boids.js _states: slot index -> "alive" | "dying" | "dead" | "newborn"
    _deathTimers,       \* boids.js _deathTimers
    _newbornTimers,     \* boids.js _newbornTimers
    _deathDuration,     \* boids.js _deathDuration (one for the whole pool)
    _newbornDuration,   \* boids.js _newbornDuration (one for the whole pool)
    markedDuration,     \* slot index -> the deathDuration of the markSelection call that last put it in "dying"
    _pos,               \* boids.js _pos: slot index -> x
    _vel,               \* boids.js _vel: slot index -> x component
    _genomes,           \* boids.js _genomes
    _simTime,           \* boids.js _simTime
    _terrain,           \* boids.js _terrain: NO_TERRAIN or FLAT_TERRAIN
    _boidMeshes,        \* boids.js _boidMeshes.length
    trailGrid,          \* boids.js trailGrid: cell index -> cell, for the cells ever written
    _nutrients,         \* boids.js _nutrients: index -> [pos, strength, active]
    state               \* main.js state: the fields the generation controller reads and writes

gaVars == <<opts, population, fitness, generation, lastSortedIndices, lastSurvivors, lastDoomed, budget>>
lifeVars == <<_states, _deathTimers, _newbornTimers, _deathDuration, _newbornDuration, markedDuration>>
kinVars == <<_pos, _vel, _genomes, _simTime, _terrain, _boidMeshes>>
fieldVars == <<trailGrid, _nutrients>>
boidVars == <<lifeVars, kinVars, fieldVars>>
vars == <<gaVars, call, boidVars, state>>

(* ------------------------------- bounds -------------------------------- *)

\* largest populationSize explored
MaxN == 3
\* nextGeneration is explored while generation < MaxGen
MaxGen == 2
\* In a run of the genetic algorithm at most MaxPerturb draws of
\* Math.random() leave their neutral outcome; every other draw is neutral.
\* Neutral are: a tournament sample of index 0, the largest crossover noise
\* on the grid, the first parent's patternId, a mutation gate that stays shut.
MaxPerturb == 1
\* at most MaxGates gates of one _mutate call fire when _mutate is explored alone
MaxGates == 3
\* number of agents of the pool (CONFIG.count)
NumBoids == 2
\* durations passed to markSelection and markNewborn: 1..MaxDuration units
MaxDuration == 2
\* frame deltas: 1..MaxDt units
MaxDt == 1
\* updateBoids is explored while _simTime + dt <= MaxTime
MaxTime == 3

(* ----------------------- constants of ga.js ---------------------------- *)

PALETTE_GOOD_HUE_MIN == 17
PALETTE_GOOD_HUE_MAX == 21
PALETTE_GOOD_VAL_MIN == 11
PALETTE_GOOD_VAL_MAX == 16
PATTERN_GOOD_SPOTCOUNT_MIN == 30
PATTERN_GOOD_SPOTCOUNT_MAX == 70
PATTERN_GOOD_SPOTSIZE_MIN == 4
PATTERN_GOOD_SPOTSIZE_MAX == 8
MOVEMENT_GOOD_SPEED_MIN == 18
MOVEMENT_GOOD_SPEED_MAX == 22
MOVEMENT_GOOD_SHOWOFF_MIN == 7
MOVEMENT_GOOD_SHOWOFF_MAX == 13
SIZE_GOOD_MIN == 8
SIZE_GOOD_MAX == 14

RD_PATTERN_TABLE ==
    << [id |-> 0, spotCount |-> 28, spotSize |-> 5, type |-> "soft_spots"],
       [id |-> 1, spotCount |-> 80, spotSize |-> 3, type |-> "micro_spots"],
       [id |-> 2, spotCount |-> 20, spotSize |-> 9, type |-> "blobs"],
       [id |-> 3, spotCount |-> 65, spotSize |-> 4, type |-> "fine_stripes"],
       [id |-> 4, spotCount |-> 40, spotSize |-> 6, type |-> "hybrid"] >>

\* RD_PATTERN_TABLE[patternId] ?? RD_PATTERN_TABLE[0]
PatternMeta(patternId) ==
    IF patternId \in 0..(Len(RD_PATTERN_TABLE) - 1)
    THEN RD_PATTERN_TABLE[patternId + 1]
    ELSE RD_PATTERN_TABLE[1]

(* ------------------------------ utilities ------------------------------ *)

\* 1.0 in fitness units (1/200)
FIT_ONE == 200

Min(a, b) == IF a < b THEN a ELSE b
Max(a, b) == IF a > b THEN a ELSE b

clamp01(x) == IF x < 0 THEN 0 ELSE IF x > FIT_ONE THEN FIT_ONE ELSE x

inRange(v, min, max) == v >= min /\ v <= max

(* ------------------------------- scores -------------------------------- *)

_paletteScore(g) ==
    (IF inRange(g.hue, PALETTE_GOOD_HUE_MIN, PALETTE_GOOD_HUE_MAX) THEN 1 ELSE 0)
  + (IF inRange(g.value, PALETTE_GOOD_VAL_MIN, PALETTE_GOOD_VAL_MAX) THEN 1 ELSE 0)

\* _patternScore with spotCount counted good from 20 on
_patternScoreFrom20(g) ==
    LET meta == PatternMeta(g.patternId)
    IN  (IF inRange(meta.spotCount, 20, PATTERN_GOOD_SPOTCOUNT_MAX) THEN 1 ELSE 0)
      + (IF inRange(meta.spotSize, PATTERN_GOOD_SPOTSIZE_MIN, PATTERN_GOOD_SPOTSIZE_MAX) THEN 1 ELSE 0)

_patternScore(g) ==
    LET meta == PatternMeta(g.patternId)
    IN  (IF inRange(meta.spotCount, PATTERN_GOOD_SPOTCOUNT_MIN, PATTERN_GOOD_SPOTCOUNT_MAX) THEN 1 ELSE 0)
      + (IF inRange(meta.spotSize, PATTERN_GOOD_SPOTSIZE_MIN, PATTERN_GOOD_SPOTSIZE_MAX) THEN 1 ELSE 0)

_sizeScore(g) == IF inRange(g.bodyScale, SIZE_GOOD_MIN, SIZE_GOOD_MAX) THEN 2 ELSE 0

_movementScore(g) ==
    (IF inRange(g.baseSpeed, MOVEMENT_GOOD_SPEED_MIN, MOVEMENT_GOOD_SPEED_MAX) THEN 1 ELSE 0)
  + (IF inRange(g.showOff, MOVEMENT_GOOD_SHOWOFF_MIN, MOVEMENT_GOOD_SHOWOFF_MAX) THEN 1 ELSE 0)

\* bonus in fitness units: 0.15 is 30, 0.05 is 10, 0.1 is 20
_synergyBonus(g) ==
    LET meta == PatternMeta(g.patternId)
        sp == g.baseSpeed
        sh == g.showOff
    IN  IF meta.type = "fine_stripes"
        THEN (IF sp > 22 THEN 30 ELSE 0) + (IF sp > 24 THEN 10 ELSE 0)
        ELSE IF meta.type = "blobs"
        THEN (IF sp < 18 THEN 30 ELSE 0) + (IF sh < 8 THEN 10 ELSE 0)
        ELSE IF meta.type = "hybrid"
        THEN (IF inRange(sp, 18, 22) /\ inRange(sh, 8, 14) THEN 20 ELSE 0)
        ELSE IF meta.type = "micro_spots"
        THEN (IF sh > 12 THEN 20 ELSE 0)
        ELSE 0

\* weights in hundredths
W_COL == 20
W_PAT == 35
W_SIZE == 20
W_MOVE == 25

\* _fitnessOf returning raw, without clamp01
_fitnessOfUnclamped(g) ==
    LET base == _paletteScore(g) * W_COL + _patternScore(g) * W_PAT
              + _sizeScore(g) * W_SIZE + _movementScore(g) * W_MOVE
        denom == W_COL + W_PAT + W_SIZE + W_MOVE
    IN  (base * 100) \div denom + _synergyBonus(g)

\* base (1/200) = sum of score (1/2) * weight (1/100); raw = base / denom + synergy
_fitnessOf(g) ==
    LET base == _paletteScore(g) * W_COL + _patternScore(g) * W_PAT
              + _sizeScore(g) * W_SIZE + _movementScore(g) * W_MOVE
        denom == W_COL + W_PAT + W_SIZE + W_MOVE
        raw == (base * 100) \div denom + _synergyBonus(g)
    IN  clamp01(raw)

(* ------------------------------ genomes -------------------------------- *)

Genome(h, v, p, b, sp, sh, gid) ==
    [hue |-> h, value |-> v, patternId |-> p, bodyScale |-> b,
     baseSpeed |-> sp, showOff |-> sh, genId |-> gid]

\* ids[i] = i % 5
_createDefaultSlotPatternIds(n) == [i \in 0..(n - 1) |-> i % 5]

\* Draws of createRandomGenome explored (on the grid, inside the ranges of
\* randFloat(150,230), randFloat(0.3,0.95), randFloat(0.5,2.0),
\* randFloat(0.5,1.8) and randFloat(0.0,1.2)).
InitHues == {19}
InitValues == {13}
InitBodyScales == {5, 10}
InitBaseSpeeds == {20}
InitShowOffs == {10}

\* the genomes createRandomGenome(index) can return, among the draws explored
createRandomGenome(index, slotPatternIds) ==
    { Genome(h, v, p, b, sp, sh, 0) :
        \* this.slotPatternIds[index] ?? randInt(0, 4)
        p \in (IF index \in DOMAIN slotPatternIds THEN {slotPatternIds[index]} ELSE 0..4),
        h \in InitHues, v \in InitValues, b \in InitBodyScales,
        sp \in InitBaseSpeeds, sh \in InitShowOffs }

(* ----------------------------- evaluation ------------------------------ *)

\* SortInsert with the tie rule reversed: x goes before the elements equal to it
SortInsertUnstable(sorted, x, fit) ==
    LET keep == { k \in 1..Len(sorted) : fit[x] - fit[sorted[k]] < 0 }
        p == Cardinality(keep)
    IN  SubSeq(sorted, 1, p) \o <<x>> \o SubSeq(sorted, p + 1, Len(sorted))

\* Array.prototype.sort with comparator (a, b) => fitness[b] - fitness[a]:
\* a stable sort, here by insertion.  x goes after every element the
\* comparator does not order after it.
SortInsert(sorted, x, fit) ==
    LET keep == { k \in 1..Len(sorted) : fit[x] - fit[sorted[k]] <= 0 }
        p == Cardinality(keep)
    IN  SubSeq(sorted, 1, p) \o <<x>> \o SubSeq(sorted, p + 1, Len(sorted))

RECURSIVE SortIndices(_, _, _, _)
SortIndices(i, n, acc, fit) ==
    IF i >= n THEN acc ELSE SortIndices(i + 1, n, SortInsert(acc, i, fit), fit)

\* Array.prototype.slice(from, to) of a sequence (to may exceed the length)
Slice(s, from, to) == SubSeq(s, from + 1, Min(to, Len(s)))

\* SurvivorCount without Math.max(1, ...)
SurvivorCountNoMax(n, survivalRate) == (n * survivalRate) \div 100

\* Math.max(1, Math.floor(N * survivalRate)), survivalRate in percent
SurvivorCount(n, survivalRate) == Max(1, (n * survivalRate) \div 100)

\* the body of evaluatePopulation after its guard: what it stores and returns
Evaluate(pop, o) ==
    LET n == o.populationSize
        fit == [i \in 0..(n - 1) |-> _fitnessOf(pop[i])]
        indices == SortIndices(0, n, << >>, fit)
        survivorCount == SurvivorCount(n, o.survivalRate)
    IN  [fitness |-> fit,
         sortedIndices |-> indices,
         survivors |-> Slice(indices, 0, survivorCount),
         doomed |-> Slice(indices, survivorCount, Len(indices))]

\* !this.population || this.population.length !== N
NotInitialized(pop, o) == Cardinality(DOMAIN pop) # o.populationSize

\* the record of a call of the GeneticAlgorithm: auto tells that nextGeneration
\* found no cached evaluation and called evaluatePopulation itself
Call(op, threw, auto, survivors, doomed) ==
    [op |-> op, threw |-> threw, auto |-> auto, survivors |-> survivors, doomed |-> doomed]

(* ------------------------ selection and crossover ---------------------- *)

\* a loop that replaces the best seen on f >= bestFit
RECURSIVE TournamentFromLastSeen(_, _, _, _, _)
TournamentFromLastSeen(samples, i, bestIdx, bestFit, fit) ==
    IF i > Len(samples) THEN bestIdx
    ELSE IF bestIdx = -1 \/ fit[samples[i]] >= bestFit
         THEN TournamentFromLastSeen(samples, i + 1, samples[i], fit[samples[i]], fit)
         ELSE TournamentFromLastSeen(samples, i + 1, bestIdx, bestFit, fit)

\* the loop of _selectParentIndex over the sampled indices: the first seen
\* among the fittest
RECURSIVE TournamentFrom(_, _, _, _, _)
TournamentFrom(samples, i, bestIdx, bestFit, fit) ==
    IF i > Len(samples) THEN bestIdx
    ELSE IF bestIdx = -1 \/ fit[samples[i]] > bestFit
         THEN TournamentFrom(samples, i + 1, samples[i], fit[samples[i]], fit)
         ELSE TournamentFrom(samples, i + 1, bestIdx, bestFit, fit)

\* the indices _selectParentIndex can return: k = 3 samples of
\* randInt(0, N - 1); the neutral sample is index 0
_selectParentIndex(fit, n) ==
    { [v |-> TournamentFrom(<<i1, i2, i3>>, 1, -1, 0, fit),
       cost |-> Cardinality({ k \in 1..3 : <<i1, i2, i3>>[k] # 0 })] :
        i1 \in 0..(n - 1), i2 \in 0..(n - 1), i3 \in 0..(n - 1) }

\* _cloneGenome copying value from the wrong field
_cloneGenomeWrongField(g) ==
    [hue |-> g.hue, value |-> g.hue, patternId |-> g.patternId,
     bodyScale |-> g.bodyScale, baseSpeed |-> g.baseSpeed,
     showOff |-> g.showOff, genId |-> g.genId]

_cloneGenome(g) ==
    [hue |-> g.hue, value |-> g.value, patternId |-> g.patternId,
     bodyScale |-> g.bodyScale, baseSpeed |-> g.baseSpeed,
     showOff |-> g.showOff, genId |-> g.genId]

\* (a + b) * 0.5 + randFloat(-n, n): the grid points c with
\* -n <= c - (a + b)/2 < n; the largest one is the neutral draw
NoiseOutcomes(a, b, n) ==
    LET all == { c \in ((a + b) \div 2 - n - 1)..((a + b) \div 2 + n + 1) :
                    2 * c - (a + b) >= -2 * n /\ 2 * c - (a + b) < 2 * n }
    IN  { [v |-> c, cost |-> IF \A e \in all : e <= c THEN 0 ELSE 1] : c \in all }

\* the children _crossover(gA, gB) can return, each with the number of
\* draws that left the neutral outcome; b bounds that number
_crossover(gA, gB, o, gen, b) ==
    LET clones == IF o.crossoverRate < 100
                  THEN { [g |-> _cloneGenome(p), cost |-> 0] : p \in {gA, gB} }
                  ELSE {}
        blends == IF o.crossoverRate >= 0
                  THEN { [g |-> Genome(h.v, v.v, p.v, bs.v, sp.v, sh.v, gen + 1),
                          cost |-> h.cost + v.cost + p.cost + bs.cost + sp.cost + sh.cost] :
                            h \in NoiseOutcomes(gA.hue, gB.hue, 1),
                            v \in NoiseOutcomes(gA.value, gB.value, 1),
                            \* Math.random() < 0.5 ? gA.patternId : gB.patternId
                            p \in { [v |-> gA.patternId, cost |-> 0],
                                    [v |-> gB.patternId, cost |-> 1] },
                            bs \in NoiseOutcomes(gA.bodyScale, gB.bodyScale, 1),
                            sp \in NoiseOutcomes(gA.baseSpeed, gB.baseSpeed, 1),
                            sh \in NoiseOutcomes(gA.showOff, gB.showOff, 1) }
                  ELSE {}
    IN  { c \in clones \cup blends : c.cost <= b }

(* ------------------------------ mutation ------------------------------- *)

\* delta = (Math.random() * 2 - 1) * span * amount, on the grid: the d with
\* -span*amount <= d < span*amount (amount in percent); explored are the
\* smallest, zero and the largest
MutationDeltas(span, amount) ==
    LET sa == span * amount
        all == { d \in (0 - (sa \div 100) - 1)..((sa \div 100) + 1) :
                    100 * d >= 0 - sa /\ 100 * d < sa }
    IN  { d \in all : d = 0 \/ (\A e \in all : e >= d) \/ (\A e \in all : e <= d) }

\* the values _mutateValue(v, min, max, amount) can return
_mutateValue(v, min, max, amount) ==
    { (IF v + d < min THEN min ELSE IF v + d > max THEN max ELSE v + d) :
        d \in MutationDeltas(max - min, amount) }

\* randInt(min, maxInclusive) = floor(min + Math.random() * (maxInclusive + 1 - min))
randInt(min, maxInclusive) == min..maxInclusive

\* the gates that fired so far on the costed genome x
Fired(x) == IF "fired" \in DOMAIN x THEN x.fired ELSE {}

\* a gate of _mutate on every costed genome of S:
\*   if (Math.random() < p) genome[field] = one of outcomes(genome[field]);
\* p in per mille, outcomes a function of the current value.  A gate that
\* fires costs one draw off the neutral outcome.
MutationGate(S, p, field, outcomes, b) ==
    UNION { (IF p < 1000
             THEN { [g |-> x.g, cost |-> x.cost, fired |-> Fired(x)] }
             ELSE {})
            \cup (IF p > 0 /\ x.cost < b
                  THEN { [g |-> [x.g EXCEPT ![field] = w], cost |-> x.cost + 1,
                          fired |-> Fired(x) \cup {field}] :
                            w \in outcomes[x.g[field]] }
                  ELSE {}) : x \in S }

\* the values field takes among the genomes of S
FieldValues(S, field) == { x.g[field] : x \in S }

\* the six gates of _mutate, in order, on every costed genome of S
_mutate(S, o, b) ==
    LET s1 == MutationGate(S, o.mutationRate * 7, "hue",
                  [v \in FieldValues(S, "hue") |-> _mutateValue(v, 0, 36, 25)], b)
        s2 == MutationGate(s1, o.mutationRate * 7, "value",
                  [v \in FieldValues(S, "value") |-> _mutateValue(v, 0, 20, 30)], b)
        s3 == MutationGate(s2, o.mutationRate * 8, "patternId",
                  [v \in FieldValues(S, "patternId") |-> randInt(0, Len(RD_PATTERN_TABLE) - 1)], b)
        s4 == MutationGate(s3, o.mutationRate * 10, "bodyScale",
                  [v \in FieldValues(S, "bodyScale") |-> _mutateValue(v, 5, 20, 40)], b)
        s5 == MutationGate(s4, o.mutationRate * 10, "baseSpeed",
                  [v \in FieldValues(S, "baseSpeed") |-> _mutateValue(v, 10, 36, 40)], b)
    IN  MutationGate(s5, o.mutationRate * 10, "showOff",
                  [v \in FieldValues(S, "showOff") |-> _mutateValue(v, 0, 24, 50)], b)

(* --------------------------- GeneticAlgorithm -------------------------- *)

\* mutationRate and crossoverRate passed by main.js, in percent
MUTATION_RATE == 15
CROSSOVER_RATE == 100

\* survivalRate values explored, in percent (main.js passes 0.4)
SurvivalRates == {40, 70, 150}

Options(n, survivalRate, slotPatternIds) ==
    [populationSize |-> n, survivalRate |-> survivalRate,
     mutationRate |-> MUTATION_RATE, crossoverRate |-> CROSSOVER_RATE,
     slotPatternIds |-> slotPatternIds]

\* the object the constructor leaves
Constructed(o) ==
    /\ opts = o
    /\ population = << >>
    /\ fitness = << >>
    /\ generation = 0
    /\ lastSortedIndices = << >>
    /\ lastSurvivors = << >>
    /\ lastDoomed = << >>
    /\ call = Call("constructor", FALSE, FALSE, << >>, << >>)

\* the push loop of initPopulation from slot i on: every population it can
\* build, one createRandomGenome(i) per slot
RECURSIVE PushGenomes(_, _, _, _)
PushGenomes(i, n, ids, acc) ==
    IF i >= n THEN { acc }
    ELSE UNION { PushGenomes(i + 1, n, ids, [j \in 0..i |-> IF j = i THEN g ELSE acc[j]]) :
                   g \in createRandomGenome(i, ids) }

InitialPopulations(o) == PushGenomes(0, o.populationSize, o.slotPatternIds, << >>)

initPopulation ==
    /\ population' \in InitialPopulations(opts)
    /\ fitness' = [i \in 0..(opts.populationSize - 1) |-> 0]
    /\ generation' = 0
    /\ lastSortedIndices' = << >>
    /\ lastSurvivors' = << >>
    /\ lastDoomed' = << >>
    /\ call' = Call("initPopulation", FALSE, FALSE, << >>, << >>)
    /\ UNCHANGED <<opts, state, budget, boidVars>>

\* evaluatePopulation allocating this.fitness before its guard
evaluatePopulationLateGuard ==
    IF NotInitialized(population, opts)
    THEN /\ fitness' = [i \in 0..(opts.populationSize - 1) |-> 0]
         /\ call' = Call("evaluatePopulation", TRUE, FALSE, << >>, << >>)
         /\ UNCHANGED <<opts, state, population, generation, lastSortedIndices,
                        lastSurvivors, lastDoomed, budget, boidVars>>
    ELSE LET e == Evaluate(population, opts)
         IN  /\ fitness' = e.fitness
             /\ lastSortedIndices' = e.sortedIndices
             /\ lastSurvivors' = e.survivors
             /\ lastDoomed' = e.doomed
             /\ call' = Call("evaluatePopulation", FALSE, FALSE, e.survivors, e.doomed)
             /\ UNCHANGED <<opts, state, population, generation, budget, boidVars>>

evaluatePopulation ==
    IF NotInitialized(population, opts)
    THEN /\ call' = Call("evaluatePopulation", TRUE, FALSE, << >>, << >>)
         /\ UNCHANGED <<gaVars, state, boidVars>>
    ELSE LET e == Evaluate(population, opts)
         IN  /\ fitness' = e.fitness
             /\ lastSortedIndices' = e.sortedIndices
             /\ lastSurvivors' = e.survivors
             /\ lastDoomed' = e.doomed
             /\ call' = Call("evaluatePopulation", FALSE, FALSE, e.survivors, e.doomed)
             /\ UNCHANGED <<opts, state, population, generation, budget, boidVars>>

\* children that keep the genId _crossover gave them
OffspringKeepingGenId(pop, fit, o, gen, b) ==
    LET parents == _selectParentIndex(fit, o.populationSize)
        crossed == UNION { { [g |-> c.g, cost |-> c.cost + pA.cost + pB.cost] :
                               c \in _crossover(pop[pA.v], pop[pB.v], o, gen,
                                                b - pA.cost - pB.cost) } :
                             pA \in parents, pB \in parents }
    IN  _mutate(crossed, o, b)

\* one doomed slot: mutate(crossover(population[select], population[select])),
\* then child.genId = generation + 1
Offspring(pop, fit, o, gen, b) ==
    LET parents == _selectParentIndex(fit, o.populationSize)
        crossed == UNION { { [g |-> c.g, cost |-> c.cost + pA.cost + pB.cost] :
                               c \in _crossover(pop[pA.v], pop[pB.v], o, gen,
                                                b - pA.cost - pB.cost) } :
                             pA \in parents, pB \in parents }
    IN  { [g |-> [c.g EXCEPT !.genId = gen + 1], cost |-> c.cost] :
            c \in _mutate(crossed, o, b) }

\* the loop over doomed from position k on: every way to fill the slots with
\* the children kids, spending at most b
RECURSIVE FillDoomed(_, _, _, _, _)
FillDoomed(doomed, k, newPop, kids, b) ==
    IF k > Len(doomed) THEN { [pop |-> newPop, cost |-> 0] }
    ELSE UNION { { [pop |-> r.pop, cost |-> r.cost + c.cost] :
                     r \in FillDoomed(doomed, k + 1, [newPop EXCEPT ![doomed[k]] = c.g],
                                      kids, b - c.cost) } :
                 c \in { x \in kids : x.cost <= b } }

\* an empty slot of new Array(N)
Hole == [hole |-> TRUE]

\* newPop after the elite loop: survivors cloned at their own slot
CloneSurvivors(survivors, pop, n) ==
    [i \in 0..(n - 1) |->
        IF \E k \in 1..Len(survivors) : survivors[k] = i
        THEN _cloneGenome(pop[i]) ELSE Hole]

\* !this.lastSortedIndices.length
NotEvaluated(sortedIndices) == Len(sortedIndices) = 0

\* a nextGeneration that leaves the cached evaluation in place
NextGenerationBodyKeepingCache(e, auto) ==
    LET n == opts.populationSize
        elite == CloneSurvivors(e.survivors, population, n)
        kids == Offspring(population, e.fitness, opts, generation, budget)
    IN  \E r \in FillDoomed(e.doomed, 1, elite, kids, budget) :
            /\ population' = r.pop
            /\ budget' = budget - r.cost
            /\ generation' = generation + 1
            /\ fitness' = e.fitness
            /\ lastSortedIndices' = e.sortedIndices
            /\ lastSurvivors' = e.survivors
            /\ lastDoomed' = e.doomed
            /\ call' = Call("nextGeneration", FALSE, auto, e.survivors, e.doomed)
            /\ UNCHANGED <<opts, state, boidVars>>

\* nextGeneration from its second statement on, with the evaluation e in the
\* cache; auto tells whether nextGeneration made it itself
NextGenerationBody(e, auto) ==
    LET n == opts.populationSize
        elite == CloneSurvivors(e.survivors, population, n)
        kids == Offspring(population, e.fitness, opts, generation, budget)
    IN  \E r \in FillDoomed(e.doomed, 1, elite, kids, budget) :
            /\ population' = r.pop
            /\ budget' = budget - r.cost
            /\ generation' = generation + 1
            /\ fitness' = [i \in 0..(n - 1) |-> 0]
            /\ lastSortedIndices' = << >>
            /\ lastSurvivors' = << >>
            /\ lastDoomed' = << >>
            /\ call' = Call("nextGeneration", FALSE, auto, e.survivors, e.doomed)
            /\ UNCHANGED <<opts, state, boidVars>>

Cached ==
    [fitness |-> fitness, sortedIndices |-> lastSortedIndices,
     survivors |-> lastSurvivors, doomed |-> lastDoomed]

\* nextGeneration refusing to run without a cached evaluation
nextGenerationStrict ==
    /\ generation < MaxGen
    /\ IF NotEvaluated(lastSortedIndices)
       THEN /\ call' = Call("nextGeneration", TRUE, FALSE, << >>, << >>)
            /\ UNCHANGED <<gaVars, state, boidVars>>
       ELSE NextGenerationBody(Cached, FALSE)

nextGeneration ==
    /\ generation < MaxGen
    /\ IF NotEvaluated(lastSortedIndices)
       THEN IF NotInitialized(population, opts)
            THEN \* the internal evaluatePopulation() throws
                 /\ call' = Call("nextGeneration", TRUE, TRUE, << >>, << >>)
                 /\ UNCHANGED <<gaVars, state, boidVars>>
            ELSE NextGenerationBody(Evaluate(population, opts), TRUE)
       ELSE NextGenerationBody(Cached, FALSE)

STATE_ALIVE == "alive"
STATE_DYING == "dying"
STATE_DEAD == "dead"
STATE_NEWBORN == "newborn"

\* let _deathDuration = 2.0; let _newbornDuration = 1.0 (time in seconds)
DEFAULT_DEATH_DURATION == 2
DEFAULT_NEWBORN_DURATION == 1

\* const NUTRIENT_COUNT = 10
NUTRIENT_COUNT == 10

\* _terrain: null, or a terrain whose heightAtXZ is constant
NO_TERRAIN == "null"
FLAT_TERRAIN == "flat"

\* new Array(NUTRIENT_COUNT).fill(null).map(() => ({pos, strength: 0.0, active: false}))
NoNutrients == [k \in 0..(NUTRIENT_COUNT - 1) |-> [pos |-> 0, strength |-> 0, active |-> FALSE]]

\* the module state of boids.js before any agent exists
NoBoids ==
    /\ _states = << >>
    /\ _deathTimers = << >>
    /\ _newbornTimers = << >>
    /\ _deathDuration = DEFAULT_DEATH_DURATION
    /\ _newbornDuration = DEFAULT_NEWBORN_DURATION
    /\ markedDuration = << >>
    /\ _pos = << >>
    /\ _vel = << >>
    /\ _genomes = << >>
    /\ _simTime = 0
    /\ _terrain = NO_TERRAIN
    /\ _boidMeshes = 0
    /\ trailGrid = << >>
    /\ _nutrients = NoNutrients

\* the state object of main.js as the module creates it, times in half
\* seconds: generationDuration is 10 s
NotStarted ==
    [ga |-> FALSE, boidsReady |-> FALSE, generation |-> 0, autoRun |-> TRUE,
     generationDuration |-> 20, timeSinceGenStart |-> 0, inTransition |-> FALSE,
     transitionTimer |-> 0, nextGenApplied |-> FALSE]

\* opts.crossoverRate: main.js's 1.0, and 0.5, under which _crossover may
\* return the clone of a parent
CrossoverRates == {CROSSOVER_RATE, 50}

InitGA ==
    /\ state = NotStarted
    /\ \E n \in 1..MaxN, r \in SurvivalRates, c \in CrossoverRates :
          Constructed([Options(n, r, _createDefaultSlotPatternIds(n))
                          EXCEPT !.crossoverRate = c])
    /\ budget = MaxPerturb
    /\ NoBoids

NextGA == initPopulation \/ evaluatePopulation \/ nextGeneration

SpecGA == InitGA /\ [][NextGA]_vars

(* ------------------- fitness of one arbitrary genome ------------------- *)

\* Trait values on both sides of every threshold the scores and the synergy
\* bonus look at; all of them are draws createRandomGenome can make.
ProbeHues == {16, 17, 21, 22}
ProbeValues == {10, 11, 13, 16, 17}
ProbeBodyScales == {7, 8, 10, 14, 15}
ProbeBaseSpeeds == {17, 18, 20, 22, 23, 24, 25}
ProbeShowOffs == {6, 7, 8, 10, 12, 13, 14, 15}

\* a GeneticAlgorithm of one slot right after initPopulation(), the slot's
\* patternId given by opts.slotPatternIds
InitFitness ==
    /\ state = NotStarted
    /\ \E h \in ProbeHues \cup InitHues, v \in ProbeValues, p \in 0..4, b \in ProbeBodyScales,
          sp \in ProbeBaseSpeeds, sh \in ProbeShowOffs :
          /\ opts = Options(1, 40, [i \in 0..0 |-> p])
          /\ population = [i \in 0..0 |-> Genome(h, v, p, b, sp, sh, 0)]
    /\ fitness = [i \in 0..0 |-> 0]
    /\ generation = 0
    /\ lastSortedIndices = << >>
    /\ lastSurvivors = << >>
    /\ lastDoomed = << >>
    /\ call = Call("initPopulation", FALSE, FALSE, << >>, << >>)
    /\ budget = 0
    /\ NoBoids

NextFitness == evaluatePopulation

SpecFitness == InitFitness /\ [][NextFitness]_vars

(* ----------------------- _mutate on a crossover child ------------------ *)

\* the record of a call of _crossover or _mutate
Applied(op, arg, ret) ==
    [op |-> op, threw |-> FALSE, arg |-> arg, ret |-> ret, fired |-> {}]

\* a GeneticAlgorithm whose _crossover has just returned a child of two
\* genomes createRandomGenome can make
InitMutate ==
    /\ state = NotStarted
    /\ opts = Options(2, 40, _createDefaultSlotPatternIds(2))
    /\ population = << >>
    /\ fitness = << >>
    /\ generation = 0
    /\ lastSortedIndices = << >>
    /\ lastSurvivors = << >>
    /\ lastDoomed = << >>
    /\ \E gA \in createRandomGenome(0, _createDefaultSlotPatternIds(2)),
          gB \in createRandomGenome(1, _createDefaultSlotPatternIds(2)) :
          \E c \in _crossover(gA, gB, Options(2, 40, _createDefaultSlotPatternIds(2)), 0, MaxPerturb) :
             call = Applied("_crossover", <<gA, gB>>, c.g)
    /\ budget = MaxGates
    /\ NoBoids

\* child = this._mutate(child)
mutate ==
    /\ call.op = "_crossover"
    /\ \E m \in _mutate({ [g |-> call.ret, cost |-> 0] }, opts, budget) :
          call' = [Applied("_mutate", call.ret, m.g) EXCEPT !.fired = m.fired]
    /\ UNCHANGED <<gaVars, state, boidVars>>

NextMutate == mutate

SpecMutate == InitMutate /\ [][NextMutate]_vars

(* ------------------------- lifecycle of the agents --------------------- *)

Boids == 0..(NumBoids - 1)

(* ------------------------- constants of boids.js ----------------------- *)

\* const BOUND_RADIUS = 100
BOUND_RADIUS == 10000
\* const TRAIL_GRID_SIZE = 128
TRAIL_GRID_SIZE == 128
\* const W_NUTRIENT = 1.0
W_NUTRIENT == 100

\* slimeParams: TRAIL_DECAY_RATE and W_TRAIL_FOLLOW in hundredths; SENSOR_ANGLE
\* (Math.PI / 4) by its cosine and sine in thousandths
slimeParams ==
    [TRAIL_DEPOSIT_AMOUNT |-> 2, TRAIL_DECAY_RATE |-> 97, W_TRAIL_FOLLOW |-> 300,
     SENSOR_DISTANCE |-> 1200, SENSOR_ANGLE |-> [cos |-> 707, sin |-> 707]]

\* CONFIG: lengths, speeds and forces in units of 0.01, weights in hundredths
CONFIG ==
    [count |-> NumBoids, maxSpeed |-> 1000, maxForce |-> 350,
     neighborRadius |-> 800, separationRadius |-> 300,
     alignWeight |-> 80, cohesionWeight |-> 55, separationWeight |-> 120,
     boundMargin |-> 400, boundSteer |-> 8]

\* const terrainSize = { width: 200, depth: 200 }
terrainSize == [width |-> 20000, depth |-> 20000]

(* ------------------------------ arithmetic ----------------------------- *)

Sign(x) == IF x > 0 THEN 1 ELSE IF x < 0 THEN -1 ELSE 0
Abs(x) == IF x < 0 THEN -x ELSE x

\* num / den rounded toward zero
Trunc(num, den) == IF num >= 0 THEN num \div den ELSE -((-num) \div den)

RECURSIVE Pow100(_)
Pow100(e) == IF e = 0 THEN 1 ELSE 100 * Pow100(e - 1)

\* the sum of f[k] over the k of S
RECURSIVE SumOver(_, _)
SumOver(S, f) ==
    IF S = {} THEN 0
    ELSE LET k == CHOOSE x \in S : TRUE IN f[k] + SumOver(S \ {k}, f)

\* Vector3.clampLength(0, max) of a vector along x
clampLength(x, max) == IF Abs(x) > max THEN Sign(x) * max ELSE x

(* ------------------------------ trail field ---------------------------- *)

ZeroCell == [n |-> 0, e |-> 0]

\* a coordinate mapped to Math.floor(u * TRAIL_GRID_SIZE) modulo the grid size
TrailAxisIndexWrapping(c) ==
    (((c + BOUND_RADIUS) * TRAIL_GRID_SIZE) \div (2 * BOUND_RADIUS)) % TRAIL_GRID_SIZE

\* worldToTrailIndex(x, z): ix + iz * TRAIL_GRID_SIZE, each coordinate mapped
\* to Math.floor(clamp((c + R) / (2 R), 0, 0.999) * TRAIL_GRID_SIZE)
TrailAxisIndex(c) ==
    IF c + BOUND_RADIUS < 0 THEN 0
    ELSE IF 1000 * (c + BOUND_RADIUS) > 999 * (2 * BOUND_RADIUS)
         THEN (999 * TRAIL_GRID_SIZE) \div 1000
         ELSE ((c + BOUND_RADIUS) * TRAIL_GRID_SIZE) \div (2 * BOUND_RADIUS)

worldToTrailIndex(x, z) == TrailAxisIndex(x) + TrailAxisIndex(z) * TRAIL_GRID_SIZE

\* sampleTrail(x, z) on the grid
sampleTrail(grid, x, z) ==
    IF worldToTrailIndex(x, z) \in DOMAIN grid THEN grid[worldToTrailIndex(x, z)] ELSE ZeroCell

\* the grid after depositTrail(x, z, amount)
depositTrail(grid, x, z, amount) ==
    LET idx == worldToTrailIndex(x, z)
        c == sampleTrail(grid, x, z)
    IN  [k \in DOMAIN grid \cup {idx} |->
            IF k = idx THEN [n |-> c.n + amount * Pow100(c.e), e |-> c.e] ELSE grid[k]]

\* a decayTrail() that multiplies every cell by 1
decayTrailKeeping(grid) ==
    [k \in DOMAIN grid |-> [n |-> grid[k].n * 100, e |-> grid[k].e + 1]]

\* the grid after decayTrail(): trailGrid[i] *= TRAIL_DECAY_RATE for every i
decayTrail(grid) ==
    [k \in DOMAIN grid |->
        [n |-> grid[k].n * slimeParams.TRAIL_DECAY_RATE, e |-> grid[k].e + 1]]

\* a > b for two cells
TrailGreater(a, b) ==
    LET m == IF a.e < b.e THEN a.e ELSE b.e
    IN  a.n * Pow100(b.e - m) > b.n * Pow100(a.e - m)

\* a > 0.001 for a cell
TrailAboveThreshold(a) ==
    IF a.e < 2 THEN a.n > 0 ELSE a.n > Pow100(a.e) \div 1000

\* k * a for a cell, k in hundredths, in units of 0.01, rounded down
TrailScaled(a, k) ==
    IF a.e = 0 THEN k * a.n ELSE ((k \div 100) * a.n) \div Pow100(a.e - 1)

(* ---------------------------- nutrient field --------------------------- *)

\* a loop that skips a source for strength <= 0 or distSq < 1e-4 only
NutrientTermsIgnoringActive(sources, pos) ==
    { k \in DOMAIN sources :
        /\ sources[k].strength > 0
        /\ Abs(sources[k].pos - pos) >= 1 }

\* the sources the loop of getNutrientForce(pos) does not skip: active,
\* strength > 0 and distSq >= 1e-4
NutrientTerms(sources, pos) ==
    { k \in DOMAIN sources :
        /\ sources[k].active
        /\ sources[k].strength > 0
        /\ Abs(sources[k].pos - pos) >= 1 }

\* weight = n.strength * invDist, in units of 1e-7
NutrientWeight(n, pos) == (1000 * n.strength) \div Abs(n.pos - pos)

\* getNutrientForce(pos): -1, 0 or 1 along x
getNutrientForce(sources, pos) ==
    LET terms == NutrientTerms(sources, pos)
        totalWeight == SumOver(terms, [k \in terms |-> NutrientWeight(sources[k], pos)])
        dirAccum == SumOver(terms, [k \in terms |->
                        Sign(sources[k].pos - pos) * NutrientWeight(sources[k], pos)])
    IN  IF totalWeight <= 10 THEN 0
        \* dirAccum.lengthSq() < 1e-6 after the division by totalWeight
        ELSE IF Abs(dirAccum) <= (totalWeight - 1) \div 1000 THEN 0
        ELSE Sign(dirAccum)

(* ------------------------------ one step ------------------------------- *)

\* createFallbackGenome()
createFallbackGenome ==
    [hue |-> 19, value |-> 12, patternId |-> 0, bodyScale |-> 10, baseSpeed |-> 20,
     showOff |-> 6]

\* genome && typeof genome.baseSpeed === "number" ? genome.baseSpeed : 1.0,
\* in units of 0.05
speedFactor(genome) == IF "baseSpeed" \in DOMAIN genome THEN genome.baseSpeed ELSE 20

\* a neighbour scan that skips no agent but i itself
NeighbourScanWithDead(i, states, pos, vel) ==
    LET others == { j \in DOMAIN states : j # i }
        near == { j \in others : Abs(pos[i] - pos[j]) < CONFIG.neighborRadius }
        close == { j \in others : /\ Abs(pos[i] - pos[j]) < CONFIG.separationRadius
                                  /\ Abs(pos[i] - pos[j]) > 0 }
    IN  [neighbours |-> near, separating |-> close,
         cnt |-> Cardinality(near),
         sumV |-> SumOver(near, vel), sumP |-> SumOver(near, pos),
         sep |-> SumOver(close, [j \in close |-> Sign(pos[i] - pos[j])])]

\* the inner loop of the force pass for agent i: the agents j added to sumV,
\* sumP and cnt, those added to sep, and the sums
NeighbourScan(i, states, pos, vel) ==
    LET others == { j \in DOMAIN states : j # i /\ states[j] # STATE_DEAD }
        near == { j \in others : Abs(pos[i] - pos[j]) < CONFIG.neighborRadius }
        \* d < CONFIG.separationRadius && d > 1e-3
        close == { j \in others : /\ Abs(pos[i] - pos[j]) < CONFIG.separationRadius
                                  /\ Abs(pos[i] - pos[j]) > 0 }
    IN  [neighbours |-> near, separating |-> close,
         cnt |-> Cardinality(near),
         sumV |-> SumOver(near, vel), sumP |-> SumOver(near, pos),
         \* pi.clone().sub(pj).multiplyScalar(1.0 / d)
         sep |-> SumOver(close, [j \in close |-> Sign(pos[i] - pos[j])])]

\* dir.normalize().multiplyScalar(CONFIG.maxSpeed * speedFactor).sub(vi)
\*    .clampLength(0, CONFIG.maxForce)
Steer(dir, vi, sf) ==
    clampLength(Sign(dir) * ((CONFIG.maxSpeed * sf) \div 20) - vi, CONFIG.maxForce)

\* what applyTrailSensingForce(i, acc) adds to acc.x: the forward sensor and
\* the two sensors turned by SENSOR_ANGLE about the y axis
applyTrailSensingForce(grid, p, v) ==
    IF v = 0 THEN 0
    ELSE LET dir == Sign(v)
             side == Trunc(dir * slimeParams.SENSOR_DISTANCE * slimeParams.SENSOR_ANGLE.cos, 1000)
             off == Trunc(dir * slimeParams.SENSOR_DISTANCE * slimeParams.SENSOR_ANGLE.sin, 1000)
             valF == sampleTrail(grid, p + dir * slimeParams.SENSOR_DISTANCE, 0)
             valL == sampleTrail(grid, p + side, 0 - off)
             valR == sampleTrail(grid, p + side, off)
             afterL == IF TrailGreater(valL, valF)
                       THEN [val |-> valL, x |-> slimeParams.SENSOR_ANGLE.cos]
                       ELSE [val |-> valF, x |-> 1000]
             best == IF TrailGreater(valR, afterL.val)
                     THEN [val |-> valR, x |-> slimeParams.SENSOR_ANGLE.cos]
                     ELSE afterL
         IN  IF ~TrailAboveThreshold(best.val) THEN 0
             ELSE Trunc(dir * best.x * TrailScaled(best.val, slimeParams.W_TRAIL_FOLLOW), 1000)

\* (Math.random() - 0.5) * 0.2 on the grid; 0 is the neutral draw
ForceNoise == { [v |-> -10, cost |-> 1], [v |-> 0, cost |-> 0], [v |-> 9, cost |-> 1] }

\* _acc[i].x at the end of the force pass, before the noise
Force(i, states, pos, vel, genomes, grid, sources) ==
    LET scan == NeighbourScan(i, states, pos, vel)
        sf == speedFactor(genomes[i])
        align == IF scan.cnt > 0
                 THEN Trunc(Steer(scan.sumV, vel[i], sf) * CONFIG.alignWeight, 100)
                 ELSE 0
        cohesion == IF scan.cnt > 0
                    THEN Trunc(Steer(scan.sumP - scan.cnt * pos[i], vel[i], sf)
                                 * CONFIG.cohesionWeight, 100)
                    ELSE 0
        separation == IF scan.sep # 0
                      THEN Trunc(Steer(scan.sep, vel[i], sf) * CONFIG.separationWeight, 100)
                      ELSE 0
    IN  align + cohesion + separation
        + getNutrientForce(sources, pos[i]) * W_NUTRIENT
        + applyTrailSensingForce(grid, pos[i], vel[i])

\* confineToTerrain, followSurface over a flat terrain and limitVec3 applied
\* to the position and velocity of one agent: [pos, vel]
Confined(p, v, sf) ==
    LET halfW == terrainSize.width \div 2 - CONFIG.boundMargin
        v1 == IF Abs(p) > halfW - CONFIG.boundMargin THEN v - Sign(p) * CONFIG.boundSteer ELSE v
        out == p < 0 - halfW \/ p > halfW
        p2 == IF p < 0 - halfW THEN 0 - halfW ELSE IF p > halfW THEN halfW ELSE p
        v2 == IF out THEN 0 - v1 ELSE v1
    IN  [pos |-> p2, vel |-> clampLength(v2, (CONFIG.maxSpeed * sf) \div 20)]

\* the integration pass for one agent that is not dead: [pos, vel]
Integrated(p, v, a, dt, sf) ==
    LET c == Confined(p, v + Trunc(a * dt * sf, 20), sf)
    IN  [pos |-> c.pos + c.vel * dt, vel |-> c.vel]

\* a deposit followed at once by a decay of the whole grid
DepositOfDecaying(i, grid, pos) ==
    decayTrail(depositTrail(grid, pos[i], 0, slimeParams.TRAIL_DEPOSIT_AMOUNT))

\* what the integration pass does to the grid for agent i, arrived at pos[i]:
\* depositTrail(p.x, p.z)
DepositOf(i, grid, pos) ==
    depositTrail(grid, pos[i], 0, slimeParams.TRAIL_DEPOSIT_AMOUNT)

\* depositTrail(p.x, p.z) for the agents of movers, whose new positions are pos
RECURSIVE DepositAll(_, _, _)
DepositAll(grid, movers, pos) ==
    IF movers = {} THEN grid
    ELSE LET i == CHOOSE x \in movers : \A y \in movers : x <= y
         IN  DepositAll(DepositOf(i, grid, pos), movers \ {i}, pos)

\* the arrays a step works on
World(states, pos, vel, genomes, grid, sources, acc) ==
    [states |-> states, pos |-> pos, vel |-> vel, genomes |-> genomes, grid |-> grid,
     sources |-> sources, acc |-> acc]

\* a loop body that also moves agent i and deposits its trail as soon as its
\* force is known
ForcePassOfMoving(i, w, dt) ==
    LET a == Force(i, w.states, w.pos, w.vel, w.genomes, w.grid, w.sources)
        m == Integrated(w.pos[i], w.vel[i], a, dt, speedFactor(w.genomes[i]))
        pos == [w.pos EXCEPT ![i] = m.pos]
    IN  [w EXCEPT !.acc = [j \in DOMAIN w.acc \cup {i} |-> IF j = i THEN a ELSE w.acc[j]],
                  !.pos = pos,
                  !.vel = [w.vel EXCEPT ![i] = m.vel],
                  !.grid = DepositOf(i, w.grid, pos)]

\* what the body of the force pass writes for agent i: _acc[i] and nothing
\* else (before the noise)
ForcePassOf(i, w, dt) ==
    [w EXCEPT !.acc = [j \in DOMAIN w.acc \cup {i} |->
                          IF j = i
                          THEN Force(i, w.states, w.pos, w.vel, w.genomes, w.grid, w.sources)
                          ELSE w.acc[j]]]

\* the force pass over the agents of order, from position k on
RECURSIVE ForcePass(_, _, _, _)
ForcePass(order, k, w, dt) ==
    IF k > Len(order) THEN w
    ELSE ForcePass(order, k + 1, ForcePassOf(order[k], w, dt), dt)

\* the deposits of the integration pass over the agents of order, from
\* position k on
RECURSIVE DepositPass(_, _, _, _)
DepositPass(order, k, grid, pos) ==
    IF k > Len(order) THEN grid
    ELSE DepositPass(order, k + 1, DepositOf(order[k], grid, pos), pos)

\* the record of an updateBoids(dt) call: whether it ran the step, and what
\* the force pass computed for every agent it did not skip
Stepped(dt, ran, scan, acc) ==
    [op |-> "updateBoids", threw |-> FALSE, dt |-> dt, ran |-> ran, scan |-> scan, acc |-> acc,
     noise |-> << >>]

\* every choice of the noise of the force pass for the agents of S, with the
\* number of draws off the neutral outcome, at most b
RECURSIVE NoiseChoices(_, _)
NoiseChoices(S, b) ==
    IF S = {} THEN { [v |-> << >>, cost |-> 0] }
    ELSE LET i == CHOOSE x \in S : \A y \in S : x >= y
         IN  UNION { { [v |-> [j \in DOMAIN r.v \cup {i} |-> IF j = i THEN d.v ELSE r.v[j]],
                        cost |-> r.cost + d.cost] :
                          d \in { x \in ForceNoise : x.cost <= b - r.cost } } :
                     r \in NoiseChoices(S \ {i}, b) }

\* the pool initBoids leaves: every agent alive, timers at 0
InitBoids ==
    /\ state = NotStarted
    /\ _states = [i \in Boids |-> STATE_ALIVE]
    /\ _deathTimers = [i \in Boids |-> 0]
    /\ _newbornTimers = [i \in Boids |-> 0]
    /\ _deathDuration = DEFAULT_DEATH_DURATION
    /\ _newbornDuration = DEFAULT_NEWBORN_DURATION
    /\ markedDuration = [i \in Boids |-> 0]
    /\ _pos = [i \in Boids |-> 500 * i]
    /\ _vel = [i \in Boids |-> 300]
    /\ _genomes = [i \in Boids |-> createFallbackGenome]
    /\ _simTime = 0
    /\ _terrain = FLAT_TERRAIN
    /\ _boidMeshes = CONFIG.count
    /\ trailGrid = << >>
    /\ _nutrients = NoNutrients
    /\ Constructed(Options(NumBoids, 40, _createDefaultSlotPatternIds(NumBoids)))
    /\ budget = 0

\* markSelection(survivors, doomed, deathDuration)
markSelection(survivors, doomed, deathDuration) ==
    /\ _deathDuration' = deathDuration
    /\ _states' = [i \in Boids |->
                      IF i \in doomed THEN STATE_DYING
                      ELSE IF i \in survivors THEN STATE_ALIVE
                      ELSE _states[i]]
    /\ _deathTimers' = [i \in Boids |->
                      IF i \in doomed \/ i \in survivors THEN 0 ELSE _deathTimers[i]]
    /\ markedDuration' = [i \in Boids |->
                      IF i \in doomed THEN deathDuration ELSE markedDuration[i]]
    /\ UNCHANGED <<_newbornTimers, _newbornDuration, kinVars, fieldVars, gaVars, state, call>>

\* markNewborn(indices, newbornDuration)
markNewborn(indices, newbornDuration) ==
    /\ _newbornDuration' = newbornDuration
    /\ _states' = [i \in Boids |-> IF i \in indices THEN STATE_NEWBORN ELSE _states[i]]
    /\ _newbornTimers' = [i \in Boids |-> IF i \in indices THEN 0 ELSE _newbornTimers[i]]
    /\ UNCHANGED <<_deathTimers, _deathDuration, markedDuration, kinVars, fieldVars, gaVars, state, call>>

\* a step that skips no agent
MoversWithDead(states) == DOMAIN states

\* the agents the force pass and the integration pass do not skip:
\* if (_states[i] === STATE_DEAD) continue
Movers(states) == { i \in DOMAIN states : states[i] # STATE_DEAD }

\* updateBoids(dt): nothing without meshes or terrain; else updateBoidsLogic:
\* the force pass over the agents that are not dead, the integration pass
\* (velocity, position, trail deposit, lifecycle timers), then decayTrail()
\* a timer test that needs the timer to pass the duration
ExpiredStrictly(timer, duration) == timer > duration

\* _deathTimers[i] >= _deathDuration, _newbornTimers[i] >= _newbornDuration
Expired(timer, duration) == timer >= duration

\* the timers and states after the lifecycle blocks of the integration pass:
\* _deathTimers[i] += dt for a dying agent, dead once the timer has expired;
\* _newbornTimers[i] += dt for a newborn one, alive once the timer has expired
AgedDeathTimers(states, deathTimers, dt) ==
    [i \in DOMAIN states |->
        IF states[i] = STATE_DYING THEN deathTimers[i] + dt ELSE deathTimers[i]]

AgedNewbornTimers(states, newbornTimers, dt) ==
    [i \in DOMAIN states |->
        IF states[i] = STATE_NEWBORN THEN newbornTimers[i] + dt ELSE newbornTimers[i]]

AgedStates(states, deathTimers, newbornTimers, deathDuration, newbornDuration, dt) ==
    [i \in DOMAIN states |->
        IF states[i] = STATE_DYING /\ Expired(deathTimers[i] + dt, deathDuration)
        THEN STATE_DEAD
        ELSE IF states[i] = STATE_NEWBORN /\ Expired(newbornTimers[i] + dt, newbornDuration)
        THEN STATE_ALIVE
        ELSE states[i]]

updateBoids(dt) ==
    /\ _simTime + dt <= MaxTime
    /\ IF _boidMeshes = 0 \/ _terrain = NO_TERRAIN
       THEN /\ call' = Stepped(dt, FALSE, << >>, << >>)
            /\ UNCHANGED <<gaVars, state, boidVars>>
       ELSE LET live == Movers(_states)
            IN  \E noise \in NoiseChoices(live, budget) :
                LET acc == [i \in live |->
                               Force(i, _states, _pos, _vel, _genomes, trailGrid, _nutrients)
                               + noise.v[i]]
                    moved == [i \in live |->
                               Integrated(_pos[i], _vel[i], acc[i], dt, speedFactor(_genomes[i]))]
                    newPos == [i \in DOMAIN _pos |-> IF i \in live THEN moved[i].pos ELSE _pos[i]]
                IN  /\ _simTime' = _simTime + dt
                    /\ _pos' = newPos
                    /\ _vel' = [i \in DOMAIN _vel |-> IF i \in live THEN moved[i].vel ELSE _vel[i]]
                    /\ trailGrid' = decayTrail(DepositAll(trailGrid, live, newPos))
                    /\ _deathTimers' = AgedDeathTimers(_states, _deathTimers, dt)
                    /\ _newbornTimers' = AgedNewbornTimers(_states, _newbornTimers, dt)
                    /\ _states' = AgedStates(_states, _deathTimers, _newbornTimers,
                                             _deathDuration, _newbornDuration, dt)
                    /\ budget' = budget - noise.cost
                    /\ call' = [Stepped(dt, TRUE,
                                  [i \in live |-> NeighbourScan(i, _states, _pos, _vel)], acc)
                                EXCEPT !.noise = noise.v]
                    /\ UNCHANGED <<_deathDuration, _newbornDuration, markedDuration,
                                   _genomes, _terrain, _boidMeshes, _nutrients,
                                   opts, state, population, fitness, generation,
                                   lastSortedIndices, lastSurvivors, lastDoomed>>

\* indices = null (the default): no index set was passed
NULL == {-1}

\* applyPopulationGenomes(population, indices): applyGenomeToBoid(i,
\* population[i]) for every target i the population has a genome for
applyPopulationGenomes(pop, indices) ==
    LET targetIndices == IF indices = NULL THEN 0..(CONFIG.count - 1) ELSE indices
        applied == { i \in targetIndices : i \in DOMAIN pop }
    IN  /\ _genomes' = [i \in DOMAIN _genomes \cup applied |->
                           IF i \in applied THEN pop[i] ELSE _genomes[i]]
        /\ UNCHANGED <<lifeVars, _pos, _vel, _simTime, _terrain, _boidMeshes,
                       fieldVars, gaVars, state, call>>

\* the populations handed to initBoids and applyPopulationGenomes: a genome
\* for every slot, or for the first slot only
AppliedPopulations ==
    { [i \in S |-> Genome(19, 13, i % 5, 10, 20, 10, 1)] : S \in {Boids, {0}} }

NextBoids ==
    \/ \E survivors \in SUBSET Boids, doomed \in SUBSET Boids, d \in 1..MaxDuration :
          markSelection(survivors, doomed, d)
    \/ \E indices \in SUBSET Boids, d \in 1..MaxDuration : markNewborn(indices, d)
    \/ \E dt \in 1..MaxDt : updateBoids(dt)

SpecBoids == InitBoids /\ [][NextBoids]_vars

(* ------------------------ the pool from module load -------------------- *)

\* initBoids(scene, terrain, initialGenomes); pos and vel are the random start
\* position and velocity of every agent; no initialGenomes is the empty array
initBoids(terrain, initialGenomes, pos, vel) ==
    /\ _boidMeshes = 0
    /\ IF terrain = NO_TERRAIN
       THEN /\ call' = [op |-> "initBoids", threw |-> FALSE, ret |-> FALSE]
            /\ UNCHANGED <<gaVars, state, boidVars>>
       ELSE /\ _terrain' = terrain
            /\ _boidMeshes' = CONFIG.count
            /\ _pos' = pos
            /\ _vel' = vel
            /\ _genomes' = [i \in Boids |->
                               IF i \in DOMAIN initialGenomes THEN initialGenomes[i]
                               ELSE createFallbackGenome]
            /\ _states' = [i \in Boids |-> STATE_ALIVE]
            /\ _deathTimers' = [i \in Boids |-> 0]
            /\ _newbornTimers' = [i \in Boids |-> 0]
            /\ call' = [op |-> "initBoids", threw |-> FALSE, ret |-> TRUE]
            /\ UNCHANGED <<gaVars, state, _deathDuration, _newbornDuration, markedDuration,
                           _simTime, fieldVars>>

\* positions and velocities initBoids can draw
StartPositions == {0, 200, 500, 900}
StartVelocities == {-300, 300}

\* a freshly loaded module and a constructed GeneticAlgorithm
InitPool ==
    /\ state = NotStarted
    /\ opts = Options(NumBoids, 40, _createDefaultSlotPatternIds(NumBoids))
    /\ population = << >>
    /\ fitness = << >>
    /\ generation = 0
    /\ lastSortedIndices = << >>
    /\ lastSurvivors = << >>
    /\ lastDoomed = << >>
    /\ budget = 0
    /\ NoBoids
    /\ call = [op |-> "load", threw |-> FALSE]

NextPool ==
    \/ \E terrain \in {NO_TERRAIN, FLAT_TERRAIN},
          initialGenomes \in {<< >>} \cup AppliedPopulations,
          pos \in [Boids -> StartPositions], vel \in [Boids -> StartVelocities] :
          initBoids(terrain, initialGenomes, pos, vel)
    \/ \E dt \in 1..MaxDt : updateBoids(dt)
    \/ \E pop \in AppliedPopulations, indices \in {NULL} \cup SUBSET Boids :
          applyPopulationGenomes(pop, indices)

SpecPool == InitPool /\ [][NextPool]_vars

(* --------------------------- one step, any pool ----------------------- *)

\* the start positions put the agents at the same place, within the
\* separation radius, within the neighbour radius only, or outside both
\* a pool in the middle of a run: every agent in any of the four states, a
\* dying or newborn agent just marked, a dead one at the end of its fade
InitStep ==
    /\ state = NotStarted
    /\ _states \in [Boids -> {STATE_ALIVE, STATE_DYING, STATE_DEAD, STATE_NEWBORN}]
    /\ _deathTimers = [i \in Boids |->
                          IF _states[i] = STATE_DEAD THEN DEFAULT_DEATH_DURATION ELSE 0]
    /\ _newbornTimers = [i \in Boids |-> 0]
    /\ _deathDuration = DEFAULT_DEATH_DURATION
    /\ _newbornDuration = DEFAULT_NEWBORN_DURATION
    /\ markedDuration = [i \in Boids |->
                          IF _states[i] \in {STATE_DEAD, STATE_DYING}
                          THEN DEFAULT_DEATH_DURATION ELSE 0]
    /\ _pos \in [Boids -> StartPositions]
    /\ _vel \in [Boids -> StartVelocities]
    /\ _genomes = [i \in Boids |-> createFallbackGenome]
    /\ _simTime = 0
    /\ _terrain = FLAT_TERRAIN
    /\ _boidMeshes = CONFIG.count
    /\ trailGrid = << >>
    /\ _nutrients = NoNutrients
    /\ Constructed(Options(NumBoids, 40, _createDefaultSlotPatternIds(NumBoids)))
    /\ budget = MaxPerturb

NextStep == \E dt \in 1..MaxDt : updateBoids(dt)

SpecStep == InitStep /\ [][NextStep]_vars

\* a step of the simulation clock: what every updateBoids(dt) that runs does
\* to _simTime
ClockStep == \E dt \in 1..MaxDt : _simTime + dt <= MaxTime /\ _simTime' = _simTime + dt

\* the animation loop asks for the next frame at the start of every frame, so
\* a step that can run does run; the steps of NextStep are the clock steps
SpecStepLive == SpecStep /\ WF_<<_simTime>>(ClockStep)

(* ----------------------------- the trail field ----------------------- *)

\* decayTrail() calls and depositTrail() calls of one run
MaxDecays == 3
MaxDeposits == 2

\* where trail is deposited: the centre of the world, half way to the edge,
\* the last thousandth before the edge, the edge itself and points beyond
\* either edge
DepositPositions == {-15000, 0, 5000, 9995, 10000, 12000}

\* the record of a trail run: per cell written so far, its value right after
\* the last deposit into it and the decayTrail() calls since
TrailRun(op, decays, deposits, since) ==
    [op |-> op, threw |-> FALSE, decays |-> decays, deposits |-> deposits, since |-> since,
     at |-> << >>]

\* the zero-filled grid of a freshly loaded module
InitTrail ==
    /\ state = NotStarted
    /\ opts = Options(NumBoids, 40, _createDefaultSlotPatternIds(NumBoids))
    /\ population = << >>
    /\ fitness = << >>
    /\ generation = 0
    /\ lastSortedIndices = << >>
    /\ lastSurvivors = << >>
    /\ lastDoomed = << >>
    /\ budget = 0
    /\ NoBoids
    /\ call = TrailRun("load", 0, 0, << >>)

\* depositTrail(x, z) with the default amount
callDepositTrail(x, z) ==
    /\ call.deposits < MaxDeposits
    /\ trailGrid' = depositTrail(trailGrid, x, z, slimeParams.TRAIL_DEPOSIT_AMOUNT)
    /\ call' = [TrailRun("depositTrail", call.decays, call.deposits + 1,
                         [c \in DOMAIN call.since \cup {worldToTrailIndex(x, z)} |->
                             IF c = worldToTrailIndex(x, z)
                             THEN [v |-> trailGrid'[c], k |-> 0]
                             ELSE call.since[c]])
                   EXCEPT !.at = <<x, z>>]
    /\ UNCHANGED <<gaVars, state, lifeVars, kinVars, _nutrients>>

\* decayTrail()
callDecayTrail ==
    /\ call.decays < MaxDecays
    /\ trailGrid' = decayTrail(trailGrid)
    /\ call' = TrailRun("decayTrail", call.decays + 1, call.deposits,
                        [c \in DOMAIN call.since |->
                            [v |-> call.since[c].v, k |-> call.since[c].k + 1]])
    /\ UNCHANGED <<gaVars, state, lifeVars, kinVars, _nutrients>>

NextTrail ==
    \/ \E x \in DepositPositions, z \in DepositPositions : callDepositTrail(x, z)
    \/ callDecayTrail

SpecTrail == InitTrail /\ [][NextTrail]_vars

(* --------------------------- the nutrient field ------------------------ *)

\* index arguments: below the range, two sources, past the range
NutrientIndices == {-1, 0, 1, NUTRIENT_COUNT}
\* where sources are put and where the force is asked for
NutrientPositions == {0, 200}
QueryPositions == {0, 100, 200}
\* strengths in units of 1e-6: none, faint, faint, 0.1
NutrientStrengths == {0, 1, 2, 100000}

\* the record of a getNutrientForce(pos) call: the sources it read, pos and
\* the vector returned
Asked(sources, pos, ret) ==
    [op |-> "getNutrientForce", threw |-> FALSE, sources |-> sources, arg |-> pos, ret |-> ret]

\* a freshly loaded module: every source inactive with strength 0
InitNutrient ==
    /\ state = NotStarted
    /\ opts = Options(NumBoids, 40, _createDefaultSlotPatternIds(NumBoids))
    /\ population = << >>
    /\ fitness = << >>
    /\ generation = 0
    /\ lastSortedIndices = << >>
    /\ lastSurvivors = << >>
    /\ lastDoomed = << >>
    /\ budget = 0
    /\ NoBoids
    /\ call = [op |-> "load", threw |-> FALSE]

\* setNutrientState(index, pos, strength, active)
setNutrientState(index, pos, strength, active) ==
    /\ _nutrients' = IF index < 0 \/ index >= NUTRIENT_COUNT THEN _nutrients
                     ELSE [_nutrients EXCEPT ![index] =
                              [pos |-> pos, strength |-> strength, active |-> active]]
    /\ call' = [op |-> "setNutrientState", threw |-> FALSE]
    /\ UNCHANGED <<gaVars, state, lifeVars, kinVars, trailGrid>>

\* clearNutrient(index)
clearNutrient(index) ==
    /\ _nutrients' = IF index < 0 \/ index >= NUTRIENT_COUNT THEN _nutrients
                     ELSE [_nutrients EXCEPT ![index].active = FALSE,
                                             ![index].strength = 0]
    /\ call' = [op |-> "clearNutrient", threw |-> FALSE]
    /\ UNCHANGED <<gaVars, state, lifeVars, kinVars, trailGrid>>

\* getNutrientForce(pos), asked from outside a step
callGetNutrientForce(pos) ==
    /\ call' = Asked(_nutrients, pos, getNutrientForce(_nutrients, pos))
    /\ UNCHANGED <<gaVars, state, boidVars>>

NextNutrient ==
    \/ \E index \in NutrientIndices, pos \in NutrientPositions,
          strength \in NutrientStrengths, active \in BOOLEAN :
          setNutrientState(index, pos, strength, active)
    \/ \E index \in NutrientIndices : clearNutrient(index)
    \/ \E pos \in QueryPositions : callGetNutrientForce(pos)

SpecNutrient == InitNutrient /\ [][NextNutrient]_vars

(* ----------------------- the generation controller -------------------- *)

\* main.js timing constants, in half seconds (2.0 s, 1.5 s, 1.0 s), and the
\* survival rate in percent
SURVIVAL_RATE == 40
DEATH_ANIM_DURATION == 4
SURVIVORS_WINDOW == 3
NEWBORN_ANIM_DURATION == 2

\* how long the generation timer runs without reaching generationDuration,
\* in half seconds
MaxIdle == 2

\* clock.getDelta() of a frame, in half seconds: a short frame and a
\* two-second frame (a tab that was in the background)
FrameDeltas == {1, 4}

\* values set with the "Generation (sec)" slider (1 s) and typed into the
\* "Generation" field of the panel
GenerationDurations == {2}
EditedGenerations == {0}

\* the elements of an index array
SeqSet(q) == { q[k] : k \in 1..Len(q) }

\* the GeneticAlgorithm object, the lifecycle and genome arrays of the pool
\* and the controller fields, as one value a handler works on; log lists the
\* calls the handler has made so far
GaNow ==
    [population |-> population, fitness |-> fitness, generation |-> generation,
     lastSortedIndices |-> lastSortedIndices, lastSurvivors |-> lastSurvivors,
     lastDoomed |-> lastDoomed, budget |-> budget]

PoolNow ==
    [states |-> _states, deathTimers |-> _deathTimers, newbornTimers |-> _newbornTimers,
     deathDuration |-> _deathDuration, newbornDuration |-> _newbornDuration,
     markedDuration |-> markedDuration, genomes |-> _genomes]

Running == [state |-> state, ga |-> GaNow, pool |-> PoolNow, log |-> << >>]

\* the GeneticAlgorithm after ga.evaluatePopulation() has stored e, the
\* evaluation of its population (initialised by init, so nothing is thrown)
EvaluatedGA(g, e) ==
    [g EXCEPT !.fitness = e.fitness, !.lastSortedIndices = e.sortedIndices,
              !.lastSurvivors = e.survivors, !.lastDoomed = e.doomed]

\* every GeneticAlgorithm ga.nextGeneration() can leave: the survivors of the
\* cached evaluation (or of one made on the spot) cloned, the doomed slots
\* filled with offspring, the generation advanced and the cache reset
NextGenerations(g) ==
    UNION { { [population |-> r.pop,
               fitness |-> [i \in 0..(opts.populationSize - 1) |-> 0],
               generation |-> g.generation + 1, lastSortedIndices |-> << >>,
               lastSurvivors |-> << >>, lastDoomed |-> << >>,
               budget |-> g.budget - r.cost] :
              r \in FillDoomed(e.doomed, 1,
                               CloneSurvivors(e.survivors, g.population, opts.populationSize),
                               Offspring(g.population, e.fitness, opts, g.generation, g.budget),
                               g.budget) } :
            e \in { IF NotEvaluated(g.lastSortedIndices)
                    THEN Evaluate(g.population, opts)
                    ELSE [fitness |-> g.fitness, sortedIndices |-> g.lastSortedIndices,
                          survivors |-> g.lastSurvivors, doomed |-> g.lastDoomed] } }

\* the pool after markSelection(survivors, doomed, deathDuration)
MarkedSelection(b, survivors, doomed, deathDuration) ==
    [b EXCEPT !.deathDuration = deathDuration,
              !.states = [i \in Boids |->
                            IF i \in doomed THEN STATE_DYING
                            ELSE IF i \in survivors THEN STATE_ALIVE
                            ELSE b.states[i]],
              !.deathTimers = [i \in Boids |->
                            IF i \in doomed \/ i \in survivors THEN 0 ELSE b.deathTimers[i]],
              !.markedDuration = [i \in Boids |->
                            IF i \in doomed THEN deathDuration ELSE b.markedDuration[i]]]

\* an applyPopulationGenomes that refreshes no slot
AppliedGenomesNowhere(b, pop, indices) == b

\* the pool after applyPopulationGenomes(pop, indices)
AppliedGenomes(b, pop, indices) ==
    LET applied == { i \in indices : i \in DOMAIN pop }
    IN  [b EXCEPT !.genomes = [i \in DOMAIN b.genomes \cup applied |->
                                  IF i \in applied THEN pop[i] ELSE b.genomes[i]]]

\* a markNewborn that marks every agent of the pool
MarkedNewbornAll(b, indices, newbornDuration) ==
    [b EXCEPT !.newbornDuration = newbornDuration,
              !.states = [i \in Boids |-> STATE_NEWBORN],
              !.newbornTimers = [i \in Boids |-> 0]]

\* the pool after markNewborn(indices, newbornDuration)
MarkedNewborn(b, indices, newbornDuration) ==
    [b EXCEPT !.newbornDuration = newbornDuration,
              !.states = [i \in Boids |->
                            IF i \in indices THEN STATE_NEWBORN ELSE b.states[i]],
              !.newbornTimers = [i \in Boids |->
                            IF i \in indices THEN 0 ELSE b.newbornTimers[i]]]

\* the pool after the lifecycle blocks of updateBoids(dt)
AgedPool(b, dt) ==
    [b EXCEPT !.deathTimers = AgedDeathTimers(b.states, b.deathTimers, dt),
              !.newbornTimers = AgedNewbornTimers(b.states, b.newbornTimers, dt),
              !.states = AgedStates(b.states, b.deathTimers, b.newbornTimers,
                                    b.deathDuration, b.newbornDuration, dt)]

\* the body of triggerNextGeneration() past its early return: the evaluation,
\* the selection mark and the start of the transition
Triggered(w) ==
    { [state |-> [w.state EXCEPT !.inTransition = TRUE, !.transitionTimer = 0,
                                 !.nextGenApplied = FALSE,
                                 !.generation = w.state.generation + 1],
       ga |-> EvaluatedGA(w.ga, e),
       pool |-> MarkedSelection(w.pool, SeqSet(e.survivors), SeqSet(e.doomed),
                                DEATH_ANIM_DURATION),
       log |-> w.log \o
               << [ev |-> "evaluatePopulation"],
                  [ev |-> "markSelection", survivors |-> SeqSet(e.survivors),
                   doomed |-> SeqSet(e.doomed), before |-> w.pool.states] >>] :
      e \in { Evaluate(w.ga.population, opts) } }

\* a trigger that does not return early during a transition
triggerNextGenerationAnyTime(w) ==
    IF ~w.state.ga \/ ~w.state.boidsReady THEN { w } ELSE Triggered(w)

\* triggerNextGeneration(): ignored during a transition; else evaluate, mark
\* the split on the pool and start the transition
triggerNextGeneration(w) ==
    IF ~w.state.ga \/ ~w.state.boidsReady \/ w.state.inTransition THEN { w }
    ELSE Triggered(w)

\* applyNextGeneration(): the doomed of the last evaluation, nextGeneration,
\* the new genomes and the newborn mark for the doomed slots
applyNextGeneration(w) ==
    { [state |-> w.state,
       ga |-> g,
       pool |-> MarkedNewborn(AppliedGenomes(w.pool, g.population, SeqSet(w.ga.lastDoomed)),
                              SeqSet(w.ga.lastDoomed), NEWBORN_ANIM_DURATION),
       log |-> w.log \o
               << [ev |-> "nextGeneration", timer |-> w.state.transitionTimer],
                  [ev |-> "applyPopulationGenomes", indices |-> SeqSet(w.ga.lastDoomed)],
                  [ev |-> "markNewborn", indices |-> SeqSet(w.ga.lastDoomed),
                   before |-> w.pool.states] >>] :
      g \in NextGenerations(w.ga) }

\* the first block of updateGA(dt): the generation timer under autoRun
TimedGeneration(w, dt) ==
    IF ~w.state.inTransition /\ w.state.autoRun
    THEN IF w.state.timeSinceGenStart + dt >= w.state.generationDuration
         THEN triggerNextGeneration(
                  [w EXCEPT !.state.timeSinceGenStart = w.state.timeSinceGenStart + dt])
         ELSE { [w EXCEPT !.state.timeSinceGenStart = w.state.timeSinceGenStart + dt] }
    ELSE { w }

\* the block of updateGA(dt) that applies the next generation once the
\* transition timer has reached DEATH_ANIM_DURATION + SURVIVORS_WINDOW
AppliedWhenDue(w) ==
    IF ~w.state.nextGenApplied
          /\ w.state.transitionTimer >= DEATH_ANIM_DURATION + SURVIVORS_WINDOW
    THEN { [a EXCEPT !.state.nextGenApplied = TRUE] : a \in applyNextGeneration(w) }
    ELSE { w }

\* an updateGA that ends the transition when the death animation is over
EndedTransitionEarly(w) ==
    IF w.state.transitionTimer >= DEATH_ANIM_DURATION
    THEN [w EXCEPT !.state.inTransition = FALSE, !.state.transitionTimer = 0,
                   !.state.nextGenApplied = FALSE, !.state.timeSinceGenStart = 0,
                   !.log = w.log \o << [ev |-> "end", timer |-> w.state.transitionTimer,
                                        applied |-> w.state.nextGenApplied] >>]
    ELSE w

\* the last block of updateGA(dt): the end of the transition
EndedTransition(w) ==
    IF w.state.transitionTimer >= DEATH_ANIM_DURATION + SURVIVORS_WINDOW + NEWBORN_ANIM_DURATION
    THEN [w EXCEPT !.state.inTransition = FALSE, !.state.transitionTimer = 0,
                   !.state.nextGenApplied = FALSE, !.state.timeSinceGenStart = 0,
                   !.log = w.log \o << [ev |-> "end", timer |-> w.state.transitionTimer,
                                        applied |-> w.state.nextGenApplied] >>]
    ELSE w

\* updateGA(dt) from "if (!state.inTransition) return" on
AdvancedTransition(w, dt) ==
    IF ~w.state.inTransition THEN { w }
    ELSE { EndedTransition(a) :
             a \in AppliedWhenDue([w EXCEPT !.state.transitionTimer =
                                               w.state.transitionTimer + dt]) }

\* every outcome of updateGA(dt)
updateGA(w, dt) ==
    IF ~w.state.ga \/ ~w.state.boidsReady THEN { w }
    ELSE UNION { AdvancedTransition(t, dt) : t \in TimedGeneration(w, dt) }

\* the handler leaves w: the GeneticAlgorithm, the pool and the controller
Left(w) ==
    /\ state' = w.state
    /\ population' = w.ga.population
    /\ fitness' = w.ga.fitness
    /\ generation' = w.ga.generation
    /\ lastSortedIndices' = w.ga.lastSortedIndices
    /\ lastSurvivors' = w.ga.lastSurvivors
    /\ lastDoomed' = w.ga.lastDoomed
    /\ budget' = w.ga.budget
    /\ _states' = w.pool.states
    /\ _deathTimers' = w.pool.deathTimers
    /\ _newbornTimers' = w.pool.newbornTimers
    /\ _deathDuration' = w.pool.deathDuration
    /\ _newbornDuration' = w.pool.newbornDuration
    /\ markedDuration' = w.pool.markedDuration
    /\ _genomes' = w.pool.genomes
    /\ UNCHANGED <<opts, _pos, _vel, _simTime, _terrain, _boidMeshes, fieldVars>>

\* what a handler of main.js records: its name and its calls
Handled(op, log) == [op |-> op, threw |-> FALSE, log |-> log]

\* a frame that triggers a generation, or a click that does
Triggers(dt) ==
    /\ state.ga /\ state.boidsReady /\ ~state.inTransition
    /\ state.autoRun
    /\ state.timeSinceGenStart + dt >= state.generationDuration

\* one frame of animate(): updateGA(dt), then updateBoids(dt) when the pool
\* is ready.  Of updateBoids the frame keeps the lifecycle blocks, which read
\* the states, the timers and dt only; where the agents move and what they
\* deposit is the subject of SpecStep and is left out of the controller run.
animate(dt) ==
    /\ Triggers(dt) => generation < MaxGen
    /\ ~state.inTransition /\ state.autoRun /\ ~Triggers(dt) =>
          state.timeSinceGenStart + dt <= MaxIdle
    /\ \E r \in { Running } :
       \E w \in updateGA(r, dt) :
       \E v \in { IF w.state.boidsReady /\ _boidMeshes # 0 /\ _terrain # NO_TERRAIN
                   THEN [w EXCEPT !.pool = AgedPool(w.pool, dt)] ELSE w } :
          /\ Left(v)
          /\ call' = Handled("animate", v.log)

\* the "Next Generation" button: triggerNextGeneration()
next ==
    /\ ~state.inTransition => generation < MaxGen
    /\ \E r \in { Running } :
       \E w \in triggerNextGeneration(r) :
          /\ Left(w)
          /\ call' = Handled("next", w.log)

\* the "Auto Run" checkbox
setAutoRun(v) ==
    /\ \E w \in { [Running EXCEPT !.state.autoRun = v] } : Left(w)
    /\ call' = Handled("panel", << >>)

\* the "Generation (sec)" slider
setGenerationDuration(d) ==
    /\ \E w \in { [Running EXCEPT !.state.generationDuration = d] } : Left(w)
    /\ call' = Handled("panel", << >>)

\* the "Generation" field, which shows state.generation and writes what is
\* typed into it
setGeneration(v) ==
    /\ \E w \in { [Running EXCEPT !.state.generation = v] } : Left(w)
    /\ call' = Handled("panel", << >>)

\* the state init() of main.js leaves: the GeneticAlgorithm constructed with
\* the pool's count and SURVIVAL_RATE, initPopulation(), initBoids with that
\* population on the created terrain
InitMain ==
    /\ opts = Options(NumBoids, SURVIVAL_RATE, _createDefaultSlotPatternIds(NumBoids))
    /\ population \in InitialPopulations(opts)
    /\ fitness = [i \in Boids |-> 0]
    /\ generation = 0
    /\ lastSortedIndices = << >>
    /\ lastSurvivors = << >>
    /\ lastDoomed = << >>
    /\ budget = 0
    /\ _states = [i \in Boids |-> STATE_ALIVE]
    /\ _deathTimers = [i \in Boids |-> 0]
    /\ _newbornTimers = [i \in Boids |-> 0]
    /\ _deathDuration = DEFAULT_DEATH_DURATION
    /\ _newbornDuration = DEFAULT_NEWBORN_DURATION
    /\ markedDuration = [i \in Boids |-> 0]
    /\ _pos = [i \in Boids |-> 500 * i]
    /\ _vel = [i \in Boids |-> 300]
    /\ _genomes = population
    /\ _simTime = 0
    /\ _terrain = FLAT_TERRAIN
    /\ _boidMeshes = CONFIG.count
    /\ trailGrid = << >>
    /\ _nutrients = NoNutrients
    /\ state = [NotStarted EXCEPT !.ga = TRUE, !.boidsReady = TRUE]
    /\ call = Handled("init", << >>)

NextMain ==
    \/ \E dt \in FrameDeltas : animate(dt)
    \/ next
    \/ \E v \in BOOLEAN : setAutoRun(v)
    \/ \E d \in GenerationDurations : setGenerationDuration(d)
    \/ \E v \in EditedGenerations : setGeneration(v)

SpecMain == InitMain /\ [][NextMain]_vars

\* what a frame does to the controller while a transition is in progress:
\* the timer advances, the next generation counts as applied from
\* DEATH_ANIM_DURATION + SURVIVORS_WINDOW on, and NEWBORN_ANIM_DURATION later
\* the transition is over
TransitionFrame ==
    /\ state.inTransition
    /\ \E dt \in FrameDeltas :
          state' = IF state.transitionTimer + dt
                        >= DEATH_ANIM_DURATION + SURVIVORS_WINDOW + NEWBORN_ANIM_DURATION
                   THEN [state EXCEPT !.inTransition = FALSE, !.transitionTimer = 0,
                                      !.nextGenApplied = FALSE, !.timeSinceGenStart = 0]
                   ELSE [state EXCEPT !.transitionTimer = state.transitionTimer + dt,
                                      !.nextGenApplied =
                                          state.nextGenApplied
                                          \/ state.transitionTimer + dt
                                                >= DEATH_ANIM_DURATION + SURVIVORS_WINDOW]

\* animate() asks for the next frame before anything else, so frames keep
\* arriving while a transition is in progress
SpecMainLive == SpecMain /\ WF_state(TransitionFrame)

(* ------------------- properties of the GeneticAlgorithm ---------------- *)

N == opts.populationSize
Slots == 0..(N - 1)
Evaluated == call.op = "evaluatePopulation" /\ ~call.threw
Advanced == call.op = "nextGeneration" /\ ~call.threw

\* the split an evaluation returned is a partition of the slots
SplitIsPartition(survivors, doomed) ==
    /\ SeqSet(survivors) \cap SeqSet(doomed) = {}
    /\ SeqSet(survivors) \cup SeqSet(doomed) = Slots
    /\ Cardinality(SeqSet(survivors)) = Len(survivors)
    /\ Cardinality(SeqSet(doomed)) = Len(doomed)
    /\ Len(survivors) + Len(doomed) = N

\* C1, as stated: after every evaluatePopulation() the survivors and the doomed
\* are disjoint, hold every index 0..N-1 exactly once, and
\* survivors.length = max(1, floor(N * survivalRate)).
C1_SplitSizesAsStated ==
    Evaluated =>
        /\ SplitIsPartition(call.survivors, call.doomed)
        /\ Len(call.survivors) = Max(1, (N * opts.survivalRate) \div 100)

\* C1, amended: after every evaluatePopulation(), at every generation, the
\* survivors and the doomed are disjoint, hold every index 0..N-1 exactly
\* once, and survivors.length = min(N, max(1, floor(N * survivalRate))), which
\* is max(1, floor(N * survivalRate)) whenever survivalRate <= 1; for N = 40
\* and survivalRate = 0.4 the count is 16, leaving 24 doomed.
C1_SplitSizes ==
    /\ Evaluated =>
        /\ SplitIsPartition(call.survivors, call.doomed)
        /\ call.survivors = lastSurvivors /\ call.doomed = lastDoomed
        /\ Len(call.survivors) = Min(N, Max(1, (N * opts.survivalRate) \div 100))
        /\ opts.survivalRate <= 100 =>
              Len(call.survivors) = Max(1, (N * opts.survivalRate) \div 100)
    /\ Min(40, SurvivorCount(40, 40)) = 16
    /\ 40 - Min(40, SurvivorCount(40, 40)) = 24

\* C1 witness: an evaluation of a later generation with more than one doomed slot
C1_Witness ==
    /\ Evaluated /\ generation >= 1
    /\ Len(call.survivors) = 1 /\ Len(call.doomed) = 2

\* C2: a nextGeneration() call leaves N genomes, leaves every survivor slot
\* equal field by field (genId included) to what it held, and changes doomed
\* slots only.
C2_SurvivorsKept ==
    [][ (call'.op = "nextGeneration" /\ ~call'.threw) =>
           /\ DOMAIN population' = Slots
           /\ \A i \in SeqSet(call'.survivors) : population'[i] = population[i]
           /\ \A i \in Slots : population'[i] # population[i] => i \in SeqSet(call'.doomed)
           /\ \A i \in Slots : DOMAIN population'[i] = DOMAIN population[i] ]_vars

\* C2 witness: a generation was produced with two survivors kept and a doomed
\* slot refilled by a child that differs from the genome the slot was created with
C2_Witness ==
    /\ Advanced
    /\ Len(call.survivors) = 2 /\ Len(call.doomed) = 1
    /\ \E i \in SeqSet(call.doomed) :
          population[i].genId = generation /\ population[i].bodyScale \notin InitBodyScales

\* the declared ranges of the traits: hue in [0,360), value in [0,1],
\* patternId in 0..4, bodyScale in [0.5,2.0], baseSpeed in [0.5,1.8], showOff in [0,1.2]
InDeclaredRanges(g) ==
    /\ g.hue >= 0 /\ g.hue < 36
    /\ g.value >= 0 /\ g.value <= 20
    /\ g.patternId \in 0..4
    /\ g.bodyScale >= 5 /\ g.bodyScale <= 20
    /\ g.baseSpeed >= 10 /\ g.baseSpeed <= 36
    /\ g.showOff >= 0 /\ g.showOff <= 24

\* C3, as stated: in every state reached by initPopulation() and any number of
\* evaluatePopulation()/nextGeneration() calls every genome of the population
\* has every trait inside its declared range.
C3_PopulationInRanges ==
    \A i \in DOMAIN population : InDeclaredRanges(population[i])

\* C7: after evaluatePopulation() sortedIndices is a permutation of 0..N-1,
\* fitness is non-increasing along it, equal fitness keeps ascending index
\* order, survivors are its first survivorCount entries and doomed the rest,
\* and every survivor is at least as fit as every doomed slot.
C7_StableDescendingSplit ==
    Evaluated =>
        /\ Len(lastSortedIndices) = N /\ SeqSet(lastSortedIndices) = Slots
        /\ \A k, l \in 1..N : k < l =>
              /\ fitness[lastSortedIndices[k]] >= fitness[lastSortedIndices[l]]
              /\ fitness[lastSortedIndices[k]] = fitness[lastSortedIndices[l]]
                    => lastSortedIndices[k] < lastSortedIndices[l]
        /\ lastSurvivors \o lastDoomed = lastSortedIndices
        /\ Len(lastSurvivors) = Min(N, SurvivorCount(N, opts.survivalRate))
        /\ \A i \in SeqSet(lastSurvivors), j \in SeqSet(lastDoomed) : fitness[i] >= fitness[j]

\* C7 witness: an evaluation that had to move a later slot ahead of an earlier
\* one and to keep two equally fit slots in index order
C7_Witness ==
    /\ Evaluated /\ N = 3
    /\ lastSortedIndices = <<1, 2, 0>>
    /\ fitness[1] = fitness[2] /\ fitness[1] > fitness[0]

\* C8: on a GeneticAlgorithm on which initPopulation() has not been called,
\* evaluatePopulation() and nextGeneration() signal an error and leave fitness,
\* lastSortedIndices, lastSurvivors, lastDoomed, population and generation unchanged.
C8_ThrowsBeforeInit ==
    [][ (NotInitialized(population, opts)
         /\ call'.op \in {"evaluatePopulation", "nextGeneration"}) =>
           /\ call'.threw
           /\ UNCHANGED <<fitness, lastSortedIndices, lastSurvivors, lastDoomed,
                          population, generation>> ]_vars

\* C8 witness: nextGeneration() was called before initPopulation() and threw
C8_Witness ==
    /\ call.op = "nextGeneration" /\ call.threw
    /\ NotInitialized(population, opts) /\ N >= 1

\* C9, as stated: nextGeneration() on an initialized population with no
\* evaluatePopulation() since the last initPopulation()/nextGeneration()
\* signals an error.
C9_OutOfSequenceThrows ==
    [][ (~NotInitialized(population, opts) /\ NotEvaluated(lastSortedIndices)
         /\ call'.op = "nextGeneration") => call'.threw ]_vars

\* C9, amended: nextGeneration() on an initialized population with no
\* evaluatePopulation() since the last initPopulation()/nextGeneration()
\* signals no error: it evaluates the population itself and produces the next
\* generation from that split.
C9_OutOfSequenceEvaluates ==
    [][ (~NotInitialized(population, opts) /\ NotEvaluated(lastSortedIndices)
         /\ call'.op = "nextGeneration") =>
           /\ ~call'.threw
           /\ call'.auto
           /\ generation' = generation + 1
           /\ call'.survivors = Evaluate(population, opts).survivors
           /\ call'.doomed = Evaluate(population, opts).doomed ]_vars

\* C9 witness: a nextGeneration() that found no cached evaluation, right after
\* another nextGeneration(), and went on
C9_Witness ==
    /\ Advanced /\ call.auto
    /\ generation = 2 /\ Len(call.doomed) >= 1

(* ------------------------ properties of the fitness -------------------- *)

\* C5: the fitness evaluatePopulation stores for a genome is the clamp to [0,1]
\* of 0.20*palette + 0.35*pattern + 0.20*size + 0.25*movement (over 1) plus the
\* synergy bonus, every sub-score being 0, 0.5 or 1; so it lies in [0,1].
C5_WeightedClampedFitness ==
    Evaluated =>
        \A i \in Slots :
            LET g == population[i]
                sum == 20 * _paletteScore(g) + 35 * _patternScore(g)
                     + 20 * _sizeScore(g) + 25 * _movementScore(g) + _synergyBonus(g)
            IN  /\ {_paletteScore(g), _patternScore(g), _sizeScore(g), _movementScore(g)}
                      \subseteq {0, 1, 2}
                /\ fitness[i] = (IF sum < 0 THEN 0 ELSE IF sum > 200 THEN 200 ELSE sum)
                /\ fitness[i] >= 0 /\ fitness[i] <= 200

\* C5 witness: a fast fine-striped genome whose weighted sum plus bonus exceeds
\* 1 and was clamped
C5_Witness ==
    /\ Evaluated
    /\ population[0].patternId = 3 /\ population[0].baseSpeed = 25
    /\ fitness[0] = 200
    /\ _fitnessOfUnclamped(population[0]) > 200

\* the genome of C6: hue 190, value 0.65, pattern of spotCount 28 and
\* spotSize 5, bodyScale 1.0, baseSpeed 1.0, showOff 0.5
C6_Genome == Genome(19, 13, 0, 10, 20, 10, 0)

\* C6, as stated: that genome scores (1, 1, 1, 1) on palette, pattern, size and
\* movement and its fitness is 1.0.
C6_ScoresAllOnes ==
    (Evaluated /\ population[0] = C6_Genome) =>
        /\ PatternMeta(C6_Genome.patternId).spotCount = 28
        /\ PatternMeta(C6_Genome.patternId).spotSize = 5
        /\ <<_paletteScore(C6_Genome), _patternScore(C6_Genome),
             _sizeScore(C6_Genome), _movementScore(C6_Genome)>> = <<2, 2, 2, 2>>
        /\ fitness[0] = 200

\* C6, amended: that genome scores (1, 0.5, 1, 1) on palette, pattern, size and
\* movement (spotCount 28 is below the good range 30..70), its base fitness
\* before synergy is 0.825, its synergy bonus 0 and its fitness 0.825.
C6_ScoresHalfPattern ==
    (Evaluated /\ population[0] = C6_Genome) =>
        /\ PatternMeta(C6_Genome.patternId).spotCount = 28
        /\ PatternMeta(C6_Genome.patternId).spotSize = 5
        /\ <<_paletteScore(C6_Genome), _patternScore(C6_Genome),
             _sizeScore(C6_Genome), _movementScore(C6_Genome)>> = <<2, 1, 2, 2>>
        /\ _synergyBonus(C6_Genome) = 0
        /\ fitness[0] = 165

\* C6 witness: that genome has been evaluated
C6_Witness == Evaluated /\ population[0] = C6_Genome /\ fitness[0] > 0

(* ------------------------ properties of _mutate ------------------------ *)

\* C4, as stated: the genome _mutate returns has every trait inside its
\* declared range, whatever the genome it was given and whatever the gates did.
C4_MutateInRanges == call.op = "_mutate" => InDeclaredRanges(call.ret)

(* ----------------------- properties of the lifecycle ------------------- *)

\* C10, as stated: an agent marked dying with duration D is still dying while
\* its timer (the sum of dt since the marking) is below D and is dead from the
\* first step at which the timer reaches D, whatever mark calls on other slots
\* come in between.
C10_DeadExactlyAtDuration ==
    \A i \in DOMAIN _states :
        /\ _states[i] = STATE_DYING => _deathTimers[i] < markedDuration[i]
        /\ _states[i] = STATE_DEAD => _deathTimers[i] >= markedDuration[i]

\* C11, as stated: whatever agent-pool operation is applied, the state of an
\* agent changes only along alive -> dying, dying -> dead, dead -> newborn and
\* newborn -> alive.
C11_OnlyLifecycleArrows ==
    [][\A i \in DOMAIN _states :
          (i \in DOMAIN _states' /\ _states'[i] # _states[i]) =>
              <<_states[i], _states'[i]>> \in
                  { <<STATE_ALIVE, STATE_DYING>>, <<STATE_DYING, STATE_DEAD>>,
                    <<STATE_DEAD, STATE_NEWBORN>>, <<STATE_NEWBORN, STATE_ALIVE>> }]_vars

(* ---------------------- properties of one step ------------------------ *)

\* the sums of a neighbour scan over the sets it names
ScanSums(i, scan, pos, vel) ==
    /\ scan.cnt = Cardinality(scan.neighbours)
    /\ scan.sumV = SumOver(scan.neighbours, vel)
    /\ scan.sumP = SumOver(scan.neighbours, pos)
    /\ scan.sep = SumOver(scan.separating,
                          [j \in scan.separating |-> Sign(pos[i] - pos[j])])

\* the agents j # i that are not dead and nearer to i than the radius
NotDeadWithin(i, radius) ==
    { j \in DOMAIN _states : /\ j # i
                             /\ _states[j] # STATE_DEAD
                             /\ Abs(_pos[i] - _pos[j]) < radius }

\* C12: in every step, the count, alignment and cohesion sums of each agent i
\* that is not dead range over exactly the agents j # i that are not dead at
\* the start of the step and lie within neighborRadius, and the separation
\* sum over those within separationRadius that do not coincide with i; dead
\* agents are in no sum, dying and newborn agents are.
C12_NeighbourSums ==
    [][_simTime' # _simTime =>
          \A i \in DOMAIN _states : _states[i] # STATE_DEAD =>
              /\ i \in DOMAIN call'.scan
              /\ call'.scan[i].neighbours = NotDeadWithin(i, CONFIG.neighborRadius)
              /\ call'.scan[i].separating =
                    { j \in NotDeadWithin(i, CONFIG.separationRadius) : _pos[j] # _pos[i] }
              /\ ScanSums(i, call'.scan[i], _pos, _vel)]_vars

\* C12, as stated: the separation sum, too, ranges over exactly the agents
\* that are not dead and within the radius.
C12_NeighbourSumsAsStated ==
    [][_simTime' # _simTime =>
          \A i \in DOMAIN _states : _states[i] # STATE_DEAD =>
              /\ i \in DOMAIN call'.scan
              /\ call'.scan[i].neighbours = NotDeadWithin(i, CONFIG.neighborRadius)
              /\ call'.scan[i].separating = NotDeadWithin(i, CONFIG.separationRadius)
              /\ ScanSums(i, call'.scan[i], _pos, _vel)]_vars

\* a step ran in which a dying or newborn agent was in the separation sum of
\* another agent
C12_Witness ==
    /\ call.op = "updateBoids"
    /\ call.ran
    /\ \E i \in DOMAIN call.scan : \E j \in call.scan[i].separating :
          _states[j] \in {STATE_DYING, STATE_NEWBORN}

(* --------------------- properties of the trail field ------------------- *)

\* decayRate^k as a cell
RECURSIVE RatePower(_)
RatePower(k) ==
    IF k = 0 THEN [n |-> 1, e |-> 0]
    ELSE [n |-> RatePower(k - 1).n * slimeParams.TRAIL_DECAY_RATE, e |-> k]

\* a = b and a <= b for two cells
TrailEqual(a, b) == ~TrailGreater(a, b) /\ ~TrailGreater(b, a)
TrailAtMost(a, b) == ~TrailGreater(a, b)

\* the value of cell c, zero when never written
TrailCell(grid, c) == IF c \in DOMAIN grid THEN grid[c] ELSE ZeroCell

\* C13: a cell holding v that decayTrail() is applied to k times, with no
\* deposit into it in between, holds v * decayRate^k; the value is never
\* negative and no decayTrail() call increases it.
C13_DecayPower ==
    /\ [](\A c \in DOMAIN call.since :
             /\ TrailEqual(trailGrid[c],
                           [n |-> call.since[c].v.n * RatePower(call.since[c].k).n,
                            e |-> call.since[c].v.e + call.since[c].k])
             /\ trailGrid[c].n >= 0)
    /\ [][call'.decays # call.decays =>
             \A c \in DOMAIN trailGrid' :
                 TrailAtMost(trailGrid'[c], TrailCell(trailGrid, c))]_vars

\* a cell with a positive value has been decayed MaxDecays times since its
\* last deposit, after an earlier deposit into the same cell
C13_Witness ==
    /\ call.op = "decayTrail"
    /\ \E c \in DOMAIN call.since :
          /\ call.since[c].k = MaxDecays
          /\ call.since[c].v.n > slimeParams.TRAIL_DEPOSIT_AMOUNT * Pow100(call.since[c].v.e)
          /\ trailGrid[c].n > 0

(* -------------------- properties of the nutrient field ----------------- *)

\* the sources of a getNutrientForce call that are active, have strength > 0
\* and lie farther than the epsilon distance from the query point
Contributing ==
    { k \in DOMAIN call.sources :
        /\ call.sources[k].active
        /\ call.sources[k].strength > 0
        /\ call.sources[k].pos # call.arg }

\* the sources of the call with every other source switched off
OnlyContributing ==
    [k \in DOMAIN call.sources |->
        IF k \in Contributing THEN call.sources[k]
        ELSE [pos |-> 0, strength |-> 0, active |-> FALSE]]

\* strength / dist > 1e-6 for source k of the call
Perceptible(k) ==
    1000 * call.sources[k].strength > 10 * Abs(call.sources[k].pos - call.arg)

\* C14: getNutrientForce(p) depends only on the sources that are active, have
\* strength > 0 and lie farther than the epsilon distance from p; with no such
\* source the result is the zero vector; with exactly one it is the unit
\* vector from p to that source when strength / distance exceeds 1e-6 and the
\* zero vector otherwise.
C14_NutrientForce ==
    call.op = "getNutrientForce" =>
        /\ call.ret = getNutrientForce(OnlyContributing, call.arg)
        /\ Contributing = {} => call.ret = 0
        /\ \A k \in Contributing : Contributing = {k} =>
              call.ret = IF Perceptible(k) THEN Sign(call.sources[k].pos - call.arg) ELSE 0

\* C14, as stated: with exactly one such source the result is the unit vector
\* pointing from p to that source.
C14_NutrientForceAsStated ==
    call.op = "getNutrientForce" =>
        /\ call.ret = getNutrientForce(OnlyContributing, call.arg)
        /\ Contributing = {} => call.ret = 0
        /\ \A k \in Contributing : Contributing = {k} =>
              call.ret = Sign(call.sources[k].pos - call.arg)

\* a call with exactly one contributing source, too faint to be felt, next to
\* an inactive source and a coincident one
C14_Witness ==
    /\ call.op = "getNutrientForce"
    /\ \E k \in Contributing : Contributing = {k} /\ ~Perceptible(k) /\ call.ret = 0
    /\ \E k \in DOMAIN call.sources :
          ~call.sources[k].active /\ call.sources[k].strength > 0

(* ------------------------ properties of the pool ----------------------- *)

\* C15, as stated: whether or not a terrain and genomes were supplied to
\* initBoids, every slot has a genome afterwards and the updateBoids(dt) that
\* follows raises no error and advances the clock, the positions and the
\* trail.
C15_KeepsSimulating ==
    [][(call.op = "initBoids" /\ call'.op = "updateBoids") =>
          /\ ~call'.threw
          /\ DOMAIN _genomes = Boids
          /\ _simTime' = _simTime + call'.dt
          /\ \E i \in Boids : _pos'[i] # _pos[i]
          /\ trailGrid' # trailGrid]_vars

(* ------------------- properties of a generation change ---------------- *)

\* the cache holds nothing, or the evaluation of the current population
CacheIsCurrent ==
    \/ /\ lastSortedIndices = << >>
       /\ lastSurvivors = << >>
       /\ lastDoomed = << >>
    \/ /\ ~NotInitialized(population, opts)
       /\ Cached = Evaluate(population, opts)

\* the populations nextGeneration() can produce from the evaluation e of the
\* current population, with what each costs
Successors(e) ==
    FillDoomed(e.doomed, 1, CloneSurvivors(e.survivors, population, N),
               Offspring(population, e.fitness, opts, generation, budget), budget)

\* C16: the split a nextGeneration() call works with is the evaluation of the
\* population it replaces, cached or made by the call itself, so the call
\* yields what evaluatePopulation() followed by nextGeneration() yields under
\* the same random choices; the cache is empty after the call and never holds
\* the split of an earlier population.
C16_SplitOfCurrentPopulation ==
    /\ []CacheIsCurrent
    /\ [][generation' = generation + 1 =>
             /\ call'.survivors = Evaluate(population, opts).survivors
             /\ call'.doomed = Evaluate(population, opts).doomed
             /\ \E r \in Successors(Evaluate(population, opts)) :
                   population' = r.pop /\ budget' = budget - r.cost
             /\ lastSortedIndices' = << >>
             /\ lastSurvivors' = << >>
             /\ lastDoomed' = << >>]_vars

\* the second generation was made from a cached split, and its population is
\* not the one the first split was computed from
C16_Witness ==
    /\ Advanced
    /\ ~call.auto
    /\ generation = 2
    /\ Len(call.doomed) >= 1
    /\ \E i \in SeqSet(call.doomed) : population[i].genId = 2

\* C17: a nextGeneration() call adds exactly 1 to generation, every genome it
\* writes to a doomed slot carries the new generation as genId, also when
\* _crossover returned the clone of a parent, every survivor keeps its genId,
\* and so every genId lies in 0..generation at all times.
C17_GenIdIsBirthGeneration ==
    /\ [](\A i \in DOMAIN population : population[i].genId \in 0..generation)
    /\ [][(call'.op = "nextGeneration" /\ ~call'.threw) =>
             /\ generation' = generation + 1
             /\ \A i \in SeqSet(call'.doomed) : population'[i].genId = generation'
             /\ \A i \in SeqSet(call'.survivors) :
                   population'[i].genId = population[i].genId]_vars

\* under crossoverRate 0.5, with no random draw off its neutral outcome, the
\* second generation holds a child that equals a survivor of the first
\* generation in every trait and differs from it in genId
C17_Witness ==
    /\ Advanced
    /\ opts.crossoverRate < 100
    /\ generation = 2
    /\ budget = MaxPerturb
    /\ \E i \in SeqSet(call.doomed), j \in SeqSet(call.survivors) :
          /\ population[i].genId = 2
          /\ population[j].genId = 1
          /\ [population[i] EXCEPT !.genId = 1] = population[j]

(* ---------------------- properties of the selection -------------------- *)

\* every triple of sampled indices
Triples == { <<i1, i2, i3>> : i1 \in 0..(N - 1), i2 \in 0..(N - 1), i3 \in 0..(N - 1) }

\* the position in the triple of the earliest sample of highest fitness
FirstBest(samples) ==
    CHOOSE k \in 1..3 :
        /\ \A m \in 1..3 : fitness[samples[m]] <= fitness[samples[k]]
        /\ \A m \in 1..(k - 1) : fitness[samples[m]] < fitness[samples[k]]

\* the index _selectParentIndex returns for the triple, by the fitness of the
\* last evaluation
Selected(samples) == TournamentFrom(samples, 1, -1, 0, fitness)

\* C18: for every triple of indices sampled from 0..N-1, _selectParentIndex
\* returns the sampled index of highest fitness, the earliest sampled among
\* equals, always an index in 0..N-1; and the children of a nextGeneration()
\* call are made from parents of the population the call replaces.
C18_TournamentSelection ==
    /\ [](Evaluated =>
             \A samples \in Triples :
                 /\ Selected(samples) = samples[FirstBest(samples)]
                 /\ Selected(samples) \in 0..(N - 1))
    /\ [][(call'.op = "nextGeneration" /\ ~call'.threw) =>
             { population'[i] : i \in SeqSet(call'.doomed) } \subseteq
                 { c.g : c \in Offspring(population, Evaluate(population, opts).fitness,
                                         opts, generation, budget) }]_vars

\* an evaluation after which some triple holds two different indices of the
\* same highest fitness, and some triple selects a doomed slot
C18_Witness ==
    /\ Evaluated
    /\ \E samples \in Triples :
          /\ samples[1] # samples[2]
          /\ fitness[samples[1]] = fitness[samples[2]]
          /\ fitness[samples[3]] < fitness[samples[1]]
          /\ Selected(samples) = samples[1]
    /\ \E samples \in Triples : Selected(samples) \in SeqSet(lastDoomed)

(* ----------------------- properties of the mutation -------------------- *)

\* C19, as stated: whenever the patternId gate of _mutate fires, the new
\* patternId is one of 0..4 and is not the patternId the genome had.
C19_PatternIdChanges ==
    (call.op = "_mutate" /\ "patternId" \in call.fired) =>
        /\ call.ret.patternId \in 0..(Len(RD_PATTERN_TABLE) - 1)
        /\ call.ret.patternId # call.arg.patternId

(* ------------------------ properties of dead agents -------------------- *)

\* C20: a step leaves the position, velocity, state, death timer and newborn
\* timer of every agent that is dead at its start as they are, computes no
\* force for it and deposits trail only where the other agents arrive; no
\* step moves an agent out of dead.
C20_DeadUntouched ==
    [][_simTime' # _simTime =>
          /\ \A i \in DOMAIN _states : _states[i] = STATE_DEAD =>
                /\ _pos'[i] = _pos[i]
                /\ _vel'[i] = _vel[i]
                /\ _states'[i] = STATE_DEAD
                /\ _deathTimers'[i] = _deathTimers[i]
                /\ _newbornTimers'[i] = _newbornTimers[i]
                /\ i \notin DOMAIN call'.acc
          /\ trailGrid' = decayTrail(DepositAll(trailGrid,
                              { i \in DOMAIN _states : _states[i] # STATE_DEAD }, _pos'))]_vars

\* a step ran over a pool holding an agent that was dead when it began and
\* another that was not
C20_Witness ==
    /\ call.op = "updateBoids"
    /\ call.ran
    /\ _simTime >= 1
    /\ \E i \in DOMAIN _states, j \in DOMAIN call.scan :
          /\ _states[i] = STATE_DEAD
          /\ i \notin DOMAIN call.scan
          /\ _pos[i] \in StartPositions
          /\ trailGrid # << >>

(* ------------------ properties of the order within a step -------------- *)

\* every order in which the agents of S can be iterated
Orders(S) ==
    { q \in [1..Cardinality(S) -> S] : \A a, b \in DOMAIN q : a # b => q[a] # q[b] }

\* the agents that are not dead in the current state
NotDead == { i \in DOMAIN _states : _states[i] # STATE_DEAD }

\* the arrays as they are in the current state, no force computed yet
WorldNow == World(_states, _pos, _vel, _genomes, trailGrid, _nutrients, << >>)

\* C21: the accelerations a step computes are those of the force pass run over
\* the arrays as they were at the start of the step, in whatever order the
\* agents are iterated: the pass writes only accelerations, so no force reads
\* a position, velocity, state or trail cell updated in the same step.
C21_ForcesFromStartOfStep ==
    [][_simTime' # _simTime =>
          \A order \in Orders(NotDead) :
              LET w == ForcePass(order, 1, WorldNow, call'.dt)
              IN  /\ w.pos = _pos /\ w.vel = _vel /\ w.states = _states
                  /\ w.grid = trailGrid
                  /\ DOMAIN call'.acc = NotDead
                  /\ \A i \in NotDead : call'.acc[i] = w.acc[i] + call'.noise[i]]_vars

\* a step ran in which two agents were neighbours of each other and both
\* moved
C21_Witness ==
    /\ call.op = "updateBoids"
    /\ call.ran
    /\ \E i, j \in DOMAIN call.scan :
          /\ i # j
          /\ j \in call.scan[i].neighbours
          /\ i \in call.scan[j].neighbours
          /\ call.acc[i] # 0
          /\ call.acc[j] # 0
          /\ _vel[i] # 0 /\ _vel[j] # 0

\* the number of agents of S whose position in pos lies in cell c
DepositsInto(c, S, pos) == Cardinality({ i \in S : worldToTrailIndex(pos[i], 0) = c })

\* C22: in every step that runs, every agent that is not dead deposits once,
\* at its new position, and the grid is decayed once, after all deposits: a
\* cell ends at (old value + amount * number of agents arrived in it) * rate,
\* and the grid is the same for every order of the deposits.
C22_DepositOnceThenDecay ==
    [][_simTime' # _simTime =>
          /\ \A c \in DOMAIN trailGrid' :
                /\ c \in DOMAIN trailGrid
                      \/ DepositsInto(c, NotDead, _pos') > 0
                /\ ~TrailGreater(trailGrid'[c],
                       [n |-> (TrailCell(trailGrid, c).n
                                 + slimeParams.TRAIL_DEPOSIT_AMOUNT
                                     * DepositsInto(c, NotDead, _pos')
                                     * Pow100(TrailCell(trailGrid, c).e))
                              * slimeParams.TRAIL_DECAY_RATE,
                        e |-> TrailCell(trailGrid, c).e + 1])
                /\ ~TrailGreater(
                       [n |-> (TrailCell(trailGrid, c).n
                                 + slimeParams.TRAIL_DEPOSIT_AMOUNT
                                     * DepositsInto(c, NotDead, _pos')
                                     * Pow100(TrailCell(trailGrid, c).e))
                              * slimeParams.TRAIL_DECAY_RATE,
                        e |-> TrailCell(trailGrid, c).e + 1],
                       trailGrid'[c])
          /\ \A c \in DOMAIN trailGrid : c \in DOMAIN trailGrid'
          /\ \A order \in Orders(NotDead) :
                trailGrid' = decayTrail(DepositPass(order, 1, trailGrid, _pos'))]_vars

\* after two steps two agents have just deposited into different cells, and a
\* cell written in the earlier step has only decayed in this one
C22_Witness ==
    /\ call.op = "updateBoids"
    /\ call.ran
    /\ _simTime >= 2
    /\ \E i, j \in DOMAIN call.scan :
          /\ i # j
          /\ worldToTrailIndex(_pos[i], 0) # worldToTrailIndex(_pos[j], 0)
          /\ worldToTrailIndex(_pos[i], 0) \in DOMAIN trailGrid
          /\ worldToTrailIndex(_pos[j], 0) \in DOMAIN trailGrid
    /\ \E c \in DOMAIN trailGrid :
          \A i \in DOMAIN _pos : worldToTrailIndex(_pos[i], 0) # c

(* ----------------------- properties of the trail cells ----------------- *)

\* the column (or row) of the grid that covers coordinate c, the first one
\* for a coordinate below -R and the last one for a coordinate at or above R
CoveringAxis(c) ==
    IF c < -BOUND_RADIUS THEN 0
    ELSE IF c >= BOUND_RADIUS THEN TRAIL_GRID_SIZE - 1
    ELSE CHOOSE k \in 0..(TRAIL_GRID_SIZE - 1) :
            /\ k * 2 * BOUND_RADIUS <= (c + BOUND_RADIUS) * TRAIL_GRID_SIZE
            /\ (c + BOUND_RADIUS) * TRAIL_GRID_SIZE < (k + 1) * 2 * BOUND_RADIUS

CoveringCell(x, z) == CoveringAxis(x) + CoveringAxis(z) * TRAIL_GRID_SIZE

\* the cells some deposit of the run went to; a cell outside the domain of
\* the sparse grid holds the zero of the freshly filled array
DepositedCells == DOMAIN call.since

\* C23: depositTrail(x, z) at any world point, inside or outside the bounds,
\* adds the amount to exactly one cell with an index in 0..G*G-1, the cell
\* covering the point or the nearest edge cell, and leaves every other cell
\* as it was; sampleTrail(x, z) reads that cell; a cell no deposit went to
\* reads 0 after any deposits and decays.
C23_DepositIntoCoveringCell ==
    /\ [][call'.deposits # call.deposits =>
             LET idx == CoveringCell(call'.at[1], call'.at[2])
             IN  /\ idx \in 0..(TRAIL_GRID_SIZE * TRAIL_GRID_SIZE - 1)
                 /\ DepositedCells' = DepositedCells \cup {idx}
                 /\ TrailEqual(TrailCell(trailGrid', idx),
                               [n |-> TrailCell(trailGrid, idx).n
                                        + slimeParams.TRAIL_DEPOSIT_AMOUNT
                                            * Pow100(TrailCell(trailGrid, idx).e),
                                e |-> TrailCell(trailGrid, idx).e])
                 /\ \A c \in DOMAIN trailGrid \cup DOMAIN trailGrid' :
                       c # idx => TrailCell(trailGrid', c) = TrailCell(trailGrid, c)
                 /\ DOMAIN trailGrid' \subseteq 0..(TRAIL_GRID_SIZE * TRAIL_GRID_SIZE - 1)
                 /\ sampleTrail(trailGrid', call'.at[1], call'.at[2])
                       = TrailCell(trailGrid', idx)]_vars
    /\ [][call'.decays # call.decays => DepositedCells' = DepositedCells]_vars
    /\ [](\A c \in DOMAIN trailGrid :
             c \notin DepositedCells => TrailCell(trailGrid, c).n = 0)

\* a deposit beyond the +x edge and the -z edge, after a decay and an earlier
\* deposit inside the bounds
C23_Witness ==
    /\ call.op = "depositTrail"
    /\ call.at[1] > BOUND_RADIUS
    /\ call.at[2] < -BOUND_RADIUS
    /\ call.decays > 0
    /\ trailGrid[TRAIL_GRID_SIZE - 1].n > 0
    /\ \E c \in DOMAIN trailGrid : c # TRAIL_GRID_SIZE - 1 /\ trailGrid[c].n > 0

(* ------------------ properties of the lifecycle timers ----------------- *)

\* C24: under repeated steps with dt of at least one time unit and no mark
\* call, every dying agent becomes dead and stays dead, and every newborn
\* agent becomes alive, in the first step at which its newborn timer has
\* reached the newborn duration, and stays alive.  A step takes a dying
\* agent to dying or dead and a newborn one to newborn or alive, and a dead
\* or alive agent stays as it is, so every agent completes once no agent is
\* dying or newborn any more.
C24_LifecycleCompletes ==
    /\ <>[](\A i \in Boids : _states[i] \in {STATE_ALIVE, STATE_DEAD})
    /\ [][\A i \in Boids :
             /\ _states[i] = STATE_DEAD => _states'[i] = STATE_DEAD
             /\ _states[i] = STATE_ALIVE => _states'[i] = STATE_ALIVE
             /\ _states[i] = STATE_NEWBORN /\ _simTime' # _simTime =>
                   /\ _newbornTimers[i] < _newbornDuration
                   /\ _newbornTimers'[i] > _newbornTimers[i]
                   /\ _states'[i] = IF _newbornTimers'[i] >= _newbornDuration
                                    THEN STATE_ALIVE ELSE STATE_NEWBORN
             /\ _states[i] = STATE_DYING /\ _simTime' # _simTime =>
                   /\ _deathTimers[i] < _deathDuration
                   /\ _deathTimers'[i] > _deathTimers[i]
                   /\ _states'[i] = IF _deathTimers'[i] >= _deathDuration
                                    THEN STATE_DEAD ELSE STATE_DYING]_vars

\* an agent that was dying for more than one step is dead and an agent that
\* was newborn is alive, after the steps their timers needed
C24_Witness ==
    /\ call.op = "updateBoids"
    /\ call.ran
    /\ \E i, j \in Boids :
          /\ _states[i] = STATE_DEAD
          /\ _deathTimers[i] >= _deathDuration
          /\ markedDuration[i] > 0
          /\ _simTime >= _deathDuration
          /\ _simTime > 1
          /\ _states[j] = STATE_ALIVE
          /\ _newbornTimers[j] >= _newbornDuration

(* ---------------- properties of the generation controller ------------- *)

\* where in the calls of the last handler an event of this name is
Events(name) == { k \in 1..Len(call.log) : call.log[k].ev = name }

ApplyTime == DEATH_ANIM_DURATION + SURVIVORS_WINDOW
EndTime == DEATH_ANIM_DURATION + SURVIVORS_WINDOW + NEWBORN_ANIM_DURATION

\* the calls of one handler come in the order of a transition: evaluate and
\* mark the split; next generation, genomes, newborn mark, with the timer at
\* ApplyTime or later; the end, with the timer at EndTime or later and the
\* next generation applied
CallsInOrder ==
    /\ \A name \in {"evaluatePopulation", "markSelection", "nextGeneration",
                    "applyPopulationGenomes", "markNewborn", "end"} :
          Cardinality(Events(name)) <= 1
    /\ { k + 1 : k \in Events("evaluatePopulation") } = Events("markSelection")
    /\ { k + 1 : k \in Events("nextGeneration") } = Events("applyPopulationGenomes")
    /\ { k + 2 : k \in Events("nextGeneration") } = Events("markNewborn")
    /\ \A a \in Events("markSelection"), b \in Events("nextGeneration") : a < b
    /\ \A k \in Events("nextGeneration") : call.log[k].timer >= ApplyTime
    /\ \A k \in Events("end") :
          /\ k = Len(call.log)
          /\ call.log[k].timer >= EndTime
          /\ call.log[k].applied

\* C25: a transition starts with evaluatePopulation and markSelection at the
\* trigger; nextGeneration, applyPopulationGenomes and markNewborn follow
\* exactly once, not before the transition timer has reached
\* DEATH_ANIM_DURATION + SURVIVORS_WINDOW; the transition ends after that, not
\* before the timer has reached that plus NEWBORN_ANIM_DURATION, and never
\* without nextGeneration applied; every started transition ends when frames
\* keep arriving.
C25_TransitionInOrder ==
    /\ [](call.op \in {"animate", "next", "panel"} => CallsInOrder)
    /\ [][/\ Events("markSelection")' # {} <=>
                ~state.inTransition /\ (state'.inTransition \/ Events("end")' # {})
          /\ Events("markSelection")' # {} => ~state'.nextGenApplied \/ Events("nextGeneration")' # {}
          /\ Events("nextGeneration")' # {} =>
                /\ state.inTransition \/ Events("markSelection")' # {}
                /\ ~state.nextGenApplied
                /\ state'.nextGenApplied \/ Events("end")' # {}
                /\ generation' = generation + 1
          /\ Events("nextGeneration")' = {} =>
                /\ generation' = generation
                /\ population' = population
                /\ state.inTransition /\ state'.inTransition =>
                      state'.nextGenApplied = state.nextGenApplied
          /\ Events("end")' # {} <=>
                (state.inTransition \/ Events("markSelection")' # {}) /\ ~state'.inTransition
          /\ Events("end")' # {} =>
                state.nextGenApplied \/ Events("nextGeneration")' # {}
          /\ state'.inTransition /\ ~state'.nextGenApplied =>
                state'.transitionTimer < ApplyTime
          /\ state'.inTransition => state'.transitionTimer < EndTime
          /\ state.inTransition /\ call'.op = "animate" => TransitionFrame]_vars
    /\ state.inTransition ~> ~state.inTransition

\* a frame ended a transition whose next generation an earlier frame had
\* applied, the second transition of the run
C25_Witness ==
    /\ call.op = "animate"
    /\ Events("end") = {1}
    /\ Len(call.log) = 1
    /\ generation = 2
    /\ ~state.inTransition

\* C26: in the frame loop of the controller (updateGA, then updateBoids, with
\* any positive dt per frame) every agent that markNewborn marks is Dead at
\* the moment of the call: no agent goes from Dying to Newborn directly.
C26_NewbornFromDead ==
    \A k \in Events("markNewborn") :
       \A i \in call.log[k].indices :
          call.log[k].before[i] = STATE_DEAD

\* C27: whenever no transition is running between two handlers, every agent
\* is Alive; every trigger that is not ignored marks the selection on a pool
\* whose agents are all Alive; a trigger during a transition changes nothing.
C27_TriggerOnAlivePool ==
    /\ [](~state.inTransition => \A i \in Boids : _states[i] = STATE_ALIVE)
    /\ [](\A k \in Events("markSelection") :
             \A i \in Boids : call.log[k].before[i] = STATE_ALIVE)
    /\ [][state.inTransition /\ call'.op = "next" =>
             /\ call'.log = << >>
             /\ UNCHANGED <<gaVars, boidVars, state>>]_vars

\* a trigger ignored during the second transition, which itself began on the
\* pool the first transition left
C27_Witness ==
    /\ call.op = "next"
    /\ call.log = << >>
    /\ state.inTransition
    /\ state.generation = 2
    /\ \E i \in Boids : _states[i] # STATE_ALIVE

\* C28: between any two handlers the genome agent i holds equals
\* population[i] field by field; the handler that applies the next generation
\* refreshes the doomed slots from the entries it replaces, and leaves each
\* other agent with the genome it had, which the new population entry of its
\* slot equals; no other handler changes a population entry or an agent's
\* genome.
C28_AgentGenomeIsPopulationEntry ==
    /\ [](DOMAIN _genomes = Boids /\ \A i \in Boids : _genomes[i] = population[i])
    /\ [][/\ \A k \in Events("markNewborn")' :
                \A i \in Boids :
                   IF i \in call'.log[k].indices
                   THEN /\ i \in call'.log[k - 1].indices
                        /\ _genomes'[i] = population'[i]
                   ELSE /\ i \notin call'.log[k - 1].indices
                        /\ _genomes'[i] = _genomes[i]
                        /\ population'[i] = _genomes[i]
          /\ Events("nextGeneration")' = {} =>
                population' = population /\ _genomes' = _genomes]_vars

\* the second generation applied: one slot holds a genome born in it, another
\* a genome that survived, and a replaced slot's genome is not the one the
\* first population had
C28_Witness ==
    /\ call.op = "animate"
    /\ Events("nextGeneration") # {}
    /\ generation = 2
    /\ \E i, j \in Boids :
          /\ _genomes[i].genId = 2
          /\ _genomes[j].genId < 2
          /\ i \in call.log[CHOOSE k \in Events("markNewborn") : TRUE].indices
          /\ j \notin call.log[CHOOSE k \in Events("markNewborn") : TRUE].indices

\* the slots the running transition dooms: the doomed of the evaluation at its
\* trigger until the next generation is applied, the slots holding a genome
\* born in the applied generation after that
TransitionDoomed ==
    IF state.nextGenApplied THEN { i \in Boids : population[i].genId = generation }
    ELSE SeqSet(lastDoomed)

\* C29: in every transition the slots that get a new genome and the newborn
\* mark when the next generation is applied are the slots marked Dying at the
\* trigger, and are the slots whose population genome nextGeneration replaces
\* by a child; a survivor slot is neither Dying nor Newborn at any point of the
\* transition.
C29_DoomedSlotsThroughout ==
    /\ [](state.inTransition =>
             \A i \in Boids :
                IF i \in TransitionDoomed
                THEN _states[i] # STATE_ALIVE \/ state.nextGenApplied
                ELSE _states[i] = STATE_ALIVE)
    /\ [][/\ \A k \in Events("markSelection")' :
                /\ call'.log[k].doomed \cap call'.log[k].survivors = {}
                /\ call'.log[k].doomed \cup call'.log[k].survivors = Boids
                /\ Events("nextGeneration")' = {} =>
                      /\ SeqSet(lastDoomed') = call'.log[k].doomed
                      /\ \A i \in call'.log[k].doomed :
                            _states'[i] \in {STATE_DYING, STATE_DEAD}
          /\ \A k \in Events("markNewborn")' :
                /\ call'.log[k].indices = call'.log[k - 1].indices
                /\ call'.log[k].indices =
                      IF Events("markSelection")' # {}
                      THEN call'.log[CHOOSE m \in Events("markSelection")' : TRUE].doomed
                      ELSE SeqSet(lastDoomed)
                /\ call'.log[k].indices =
                      { i \in Boids : population'[i].genId = generation' }
                /\ call'.log[k].indices = { i \in Boids : population'[i] # population[i] }
                /\ \A i \in call'.log[k].indices :
                      _states'[i] \in {STATE_NEWBORN, STATE_ALIVE}
          /\ state.inTransition /\ state'.inTransition =>
                TransitionDoomed' = TransitionDoomed]_vars

\* the second transition past its application: the doomed slot holds the
\* genome born in generation 2 and is Newborn, the survivor is Alive
C29_Witness ==
    /\ call.op = "animate"
    /\ Events("markNewborn") # {}
    /\ state.inTransition /\ state.nextGenApplied
    /\ generation = 2
    /\ TransitionDoomed # {} /\ TransitionDoomed # Boids
    /\ \A i \in TransitionDoomed : _states[i] = STATE_NEWBORN
    /\ \A i \in Boids \ TransitionDoomed : _states[i] = STATE_ALIVE

\* C30: the generation counter of the controller minus the generation
\* counter of the GeneticAlgorithm is 0 or 1, and is 1 exactly from a trigger
\* to the application of the next generation in the same transition.
C30_CountersInStep ==
    /\ state.generation - generation \in {0, 1}
    /\ state.generation - generation = 1 <=>
          state.inTransition /\ ~state.nextGenApplied

====
